---- MODULE Spec2Model ----
(***************************************************************************)
(* aquatrace-ai backend: the identification fallback pipeline              *)
(* (app.py identify_species_with_h5, vision_api_fallback.py), the          *)
(* document store (models.py) and the request handlers of app.py.          *)
(*                                                                         *)
(* Representation.                                                         *)
(*  - A Python string the code takes apart or compares after folding       *)
(*    (species names, dictionary keys, vision labels) is a sequence of     *)
(*    one-character strings, so lower(), replace(), title() and `in` are   *)
(*    computed as Python computes them.                                    *)
(*  - A descriptive text is [text, arg]: a literal, or an f-string         *)
(*    template with the value substituted into it.                         *)
(*  - A confidence is an integer number of hundredths of a percent         *)
(*    (92.00% is 9200); a vision score in [0,1] is the same number         *)
(*    (score * 10000), so score * 100 is the percentage.                   *)
(*  - Usernames and e-mail addresses are sequences of tokens, so that      *)
(*    split('@') and f"{base}_{counter}" are concatenations.               *)
(*  - ObjectIds are positions in the collection (insertion order).         *)
(***************************************************************************)
EXTENDS Integers, Sequences, FiniteSets, TLC

VARIABLES
  cfg,           \* process-wide state fixed at import: model, VISION_API_AVAILABLE, gemini_model
  users,         \* users_collection, in insertion order
  uploads,       \* uploads_collection, in insertion order
  global_stats,  \* global_stats_collection, in insertion order
  session,       \* the cookie session of each client
  inflight,      \* requests that have done their reads and not yet their writes
  resp,          \* the response to the last completed request
  clock,         \* datetime.utcnow(), as a logical clock
  env,           \* pipeline run: what the external collaborators answer
  out            \* pipeline run: what identify_species_with_h5 returned

vars == <<cfg, users, uploads, global_stats, session, inflight, resp, clock, env, out>>

----------------------------------------------------------------------------
(* Python str operations on character sequences                            *)

UpperLetters ==
  <<"A","B","C","D","E","F","G","H","I","J","K","L","M",
    "N","O","P","Q","R","S","T","U","V","W","X","Y","Z">>

LowerLetters ==
  <<"a","b","c","d","e","f","g","h","i","j","k","l","m",
    "n","o","p","q","r","s","t","u","v","w","x","y","z">>

UpperSet == {UpperLetters[i] : i \in 1..26}

LowerSet == {LowerLetters[i] : i \in 1..26}

ToLower == [c \in UpperSet |-> LowerLetters[CHOOSE i \in 1..26 : UpperLetters[i] = c]]

ToUpper == [c \in LowerSet |-> UpperLetters[CHOOSE i \in 1..26 : LowerLetters[i] = c]]

IsUpper(c) == c \in UpperSet

IsLower(c) == c \in LowerSet

LowerChar(c) == IF IsUpper(c) THEN ToLower[c] ELSE c

UpperChar(c) == IF IsLower(c) THEN ToUpper[c] ELSE c

\* str.lower()
lower(s) == [i \in 1..Len(s) |-> LowerChar(s[i])]

\* str.replace('_', ' ')
replace_underscore(s) == [i \in 1..Len(s) |-> IF s[i] = "_" THEN " " ELSE s[i]]

\* str.title(): a cased character is upper-cased after an uncased one (or at
\* the start) and lower-cased after a cased one
title(s) ==
  [i \in 1..Len(s) |->
     IF i = 1 \/ ~(IsUpper(s[i-1]) \/ IsLower(s[i-1]))
     THEN UpperChar(s[i])
     ELSE LowerChar(s[i])]

\* needle in hay (h and n hold the two strings as values)
contains(hay, needle) ==
  \E h \in {hay}, n \in {needle} :
     \E i \in 0..(Len(h) - Len(n)) :
        \A j \in 1..Len(n) : h[i + j] = n[j]

\* a literal text, and an f-string with one substituted value
Txt(t) == [text |-> t, arg |-> <<>>]

Fmt(t, a) == [text |-> t, arg |-> a]

----------------------------------------------------------------------------
(* Reference data                                                          *)

\* the class list of the local classifier, by class index 0..8
SPECIES_NAMES ==
  <<<<"C", "o", "r", "a", "l">>,
    <<"F", "i", "s", "h">>,
    <<"J", "e", "l", "l", "y", " ", "F", "i", "s", "h">>,
    <<"L", "o", "b", "s", "t", "e", "r">>,
    <<"P", "e", "n", "g", "u", "i", "n">>,
    <<"S", "e", "a", "l">>,
    <<"S", "h", "a", "r", "k", "s">>,
    <<"S", "q", "u", "i", "d">>,
    <<"T", "u", "r", "t", "l", "e">>>>

\* the reference table, in the order a Python dict keeps its keys (a key
\* written twice keeps its first position and its last value)
animal_database ==
  <<
    \* "angelfish"
    [key |-> <<"a", "n", "g", "e", "l", "f", "i", "s", "h">>,
     has_name |-> FALSE, name |-> <<>>,
     scientific_name |-> "Pomacanthidae",
     facts |-> "Angelfish are colorful marine fish known for their distinctive flat, disc-shaped bodies and vibrant patterns.",
     endangered_status |-> "Least Concern to Vulnerable",
     fun_fact |-> "Angelfish can change their colors and patterns as they mature!",
     habitat |-> "Coral reefs in tropical waters",
     diet |-> "Algae, small invertebrates, and sponges",
     size |-> "7-60cm depending on species",
     threats |-> "Coral reef destruction, aquarium trade",
     population_trend |-> "Stable to declining"],
    \* "clownfish"
    [key |-> <<"c", "l", "o", "w", "n", "f", "i", "s", "h">>,
     has_name |-> FALSE, name |-> <<>>,
     scientific_name |-> "Amphiprioninae",
     facts |-> "Clownfish live in symbiosis with sea anemones, protected by a special mucus coating.",
     endangered_status |-> "Least Concern",
     fun_fact |-> "All clownfish are born male and can change to female when needed!",
     habitat |-> "Coral reefs and anemones in Indo-Pacific",
     diet |-> "Algae, zooplankton, and anemone tentacles",
     size |-> "10-18cm",
     threats |-> "Coral bleaching, aquarium trade",
     population_trend |-> "Stable"],
    \* "sharks"
    [key |-> <<"s", "h", "a", "r", "k", "s">>,
     has_name |-> TRUE, name |-> <<"S", "h", "a", "r", "k", "s">>,
     scientific_name |-> "Selachimorpha",
     facts |-> "Sharks are apex predators with cartilaginous skeletons and multiple rows of teeth.",
     endangered_status |-> "Many species threatened",
     fun_fact |-> "Sharks have existed for over 400 million years!",
     habitat |-> "All ocean environments worldwide",
     diet |-> "Fish, marine mammals, plankton",
     size |-> "20cm to 12m depending on species",
     threats |-> "Overfishing, finning, bycatch",
     population_trend |-> "Declining globally"],
    \* "sea turtle"
    [key |-> <<"s", "e", "a", " ", "t", "u", "r", "t", "l", "e">>,
     has_name |-> TRUE, name |-> <<"S", "e", "a", " ", "T", "u", "r", "t", "l", "e">>,
     scientific_name |-> "Chelonioidea",
     facts |-> "Sea turtles are ancient marine reptiles that navigate using Earth's magnetic field.",
     endangered_status |-> "Most species endangered",
     fun_fact |-> "Sea turtles return to the same beach where they were born to nest!",
     habitat |-> "Oceans worldwide, nesting on beaches",
     diet |-> "Jellyfish, seagrass, algae, crustaceans",
     size |-> "60cm to 2m shell length",
     threats |-> "Plastic pollution, fishing nets, beach development",
     population_trend |-> "Declining globally"],
    \* "Dolphin"
    [key |-> <<"D", "o", "l", "p", "h", "i", "n">>,
     has_name |-> TRUE, name |-> <<"D", "o", "l", "p", "h", "i", "n">>,
     scientific_name |-> "Delphinidae",
     facts |-> "Dolphins are highly intelligent marine mammals with complex social structures.",
     endangered_status |-> "Varies by species",
     fun_fact |-> "Dolphins have names for each other using unique whistle signatures!",
     habitat |-> "Oceans and some rivers worldwide",
     diet |-> "Fish, squid, and crustaceans",
     size |-> "1.2-9m depending on species",
     threats |-> "Fishing nets, pollution, boat strikes",
     population_trend |-> "Varies by species"],
    \* "octopus"
    [key |-> <<"o", "c", "t", "o", "p", "u", "s">>,
     has_name |-> TRUE, name |-> <<"O", "c", "t", "o", "p", "u", "s">>,
     scientific_name |-> "Octopoda",
     facts |-> "Octopuses are intelligent cephalopods with eight arms and three hearts.",
     endangered_status |-> "Most species least concern",
     fun_fact |-> "Octopuses can change color and texture instantly to camouflage!",
     habitat |-> "Ocean floors worldwide",
     diet |-> "Crabs, shrimp, fish, and mollusks",
     size |-> "5cm to 9m arm span",
     threats |-> "Overfishing, habitat destruction",
     population_trend |-> "Generally stable"],
    \* "jellyfish"
    [key |-> <<"j", "e", "l", "l", "y", "f", "i", "s", "h">>,
     has_name |-> TRUE, name |-> <<"J", "e", "l", "l", "y", "f", "i", "s", "h">>,
     scientific_name |-> "Cnidaria",
     facts |-> "Jellyfish are ancient creatures composed of 95% water with no brain or heart.",
     endangered_status |-> "Most species stable",
     fun_fact |-> "Some jellyfish species are immortal and can reverse their aging process!",
     habitat |-> "All ocean environments",
     diet |-> "Plankton, small fish, and other jellyfish",
     size |-> "1mm to 2m bell diameter",
     threats |-> "Climate change, pollution",
     population_trend |-> "Many species increasing"],
    \* "seahorse"
    [key |-> <<"s", "e", "a", "h", "o", "r", "s", "e">>,
     has_name |-> TRUE, name |-> <<"S", "e", "a", "h", "o", "r", "s", "e">>,
     scientific_name |-> "Hippocampus",
     facts |-> "Seahorses are unique fish where males carry and give birth to the young.",
     endangered_status |-> "Many species vulnerable",
     fun_fact |-> "Seahorses mate for life and perform elaborate courtship dances!",
     habitat |-> "Shallow coastal waters with seagrass",
     diet |-> "Small crustaceans and plankton",
     size |-> "1.5-35cm",
     threats |-> "Habitat loss, traditional medicine trade",
     population_trend |-> "Declining"],
    \* "pufferfish"
    [key |-> <<"p", "u", "f", "f", "e", "r", "f", "i", "s", "h">>,
     has_name |-> TRUE, name |-> <<"P", "u", "f", "f", "e", "r", "f", "i", "s", "h">>,
     scientific_name |-> "Tetraodontidae",
     facts |-> "Pufferfish can inflate their bodies and contain potent neurotoxins.",
     endangered_status |-> "Most species stable",
     fun_fact |-> "Some pufferfish create intricate sand circles to attract mates!",
     habitat |-> "Tropical and subtropical waters",
     diet |-> "Algae, invertebrates, and small fish",
     size |-> "2.5cm to 1.2m",
     threats |-> "Overfishing, habitat destruction",
     population_trend |-> "Generally stable"],
    \* "ray"
    [key |-> <<"r", "a", "y">>,
     has_name |-> TRUE, name |-> <<"R", "a", "y", "s">>,
     scientific_name |-> "Batoidea",
     facts |-> "Rays are flattened cartilaginous fish related to sharks.",
     endangered_status |-> "Many species threatened",
     fun_fact |-> "Manta rays have the largest brain-to-body ratio of any fish!",
     habitat |-> "Ocean floors and open water",
     diet |-> "Plankton, small fish, mollusks",
     size |-> "10cm to 9m wingspan",
     threats |-> "Overfishing, bycatch, habitat loss",
     population_trend |-> "Declining"],
    \* "clams"
    [key |-> <<"c", "l", "a", "m", "s">>,
     has_name |-> TRUE, name |-> <<"C", "l", "a", "m", "s">>,
     scientific_name |-> "Bivalvia",
     facts |-> "Clams are filter-feeding marine bivalve mollusks that live in sand or mud.",
     endangered_status |-> "Least Concern",
     fun_fact |-> "The giant clam can live for over 100 years!",
     habitat |-> "Benthic zones of oceans and freshwater",
     diet |-> "Phytoplankton and organic particles",
     size |-> "Up to 1.2m (giant clam)",
     threats |-> "Over-harvesting, ocean acidification",
     population_trend |-> "Stable"],
    \* "corals"
    [key |-> <<"c", "o", "r", "a", "l", "s">>,
     has_name |-> TRUE, name |-> <<"C", "o", "r", "a", "l", "s">>,
     scientific_name |-> "Anthozoa",
     facts |-> "Corals are marine invertebrates that live in colonies and form the foundation of coral reefs.",
     endangered_status |-> "Many species are threatened",
     fun_fact |-> "Corals are actually animals, not plants!",
     habitat |-> "Tropical and subtropical waters",
     diet |-> "Plankton and photosynthesis from algae",
     size |-> "Varies widely",
     threats |-> "Coral bleaching, climate change, pollution",
     population_trend |-> "Declining"],
    \* "crabs"
    [key |-> <<"c", "r", "a", "b", "s">>,
     has_name |-> TRUE, name |-> <<"C", "r", "a", "b", "s">>,
     scientific_name |-> "Brachyura",
     facts |-> "Crabs are crustaceans with a thick exoskeleton and a single pair of pincers.",
     endangered_status |-> "Most species least concern",
     fun_fact |-> "Crabs can walk sideways, but some species can also walk forward and backward!",
     habitat |-> "Coastal waters, tide pools, and deep sea",
     diet |-> "Algae, mollusks, worms, other crustaceans",
     size |-> "1cm to 4m leg span (Japanese spider crab)",
     threats |-> "Overfishing, habitat destruction",
     population_trend |-> "Generally stable"],
    \* "eel"
    [key |-> <<"e", "e", "l">>,
     has_name |-> TRUE, name |-> <<"E", "e", "l">>,
     scientific_name |-> "Anguilliformes",
     facts |-> "Eels are long, slender fish that can grow to be several meters long.",
     endangered_status |-> "Varies by species",
     fun_fact |-> "Some eels can produce electricity to stun their prey!",
     habitat |-> "Coastal waters, coral reefs, deep sea",
     diet |-> "Fish, crustaceans, and other invertebrates",
     size |-> "10cm to 4m",
     threats |-> "Overfishing, habitat loss",
     population_trend |-> "Varies by species"],
    \* "fish"
    [key |-> <<"f", "i", "s", "h">>,
     has_name |-> TRUE, name |-> <<"F", "i", "s", "h">>,
     scientific_name |-> "Vertebrata",
     facts |-> "Fish are aquatic vertebrates that have gills and fins. They are the most diverse group of vertebrates.",
     endangered_status |-> "Varies widely by species",
     fun_fact |-> "There are over 34,000 known species of fish!",
     habitat |-> "All water environments",
     diet |-> "Varies widely",
     size |-> "Varies widely",
     threats |-> "Overfishing, habitat destruction, pollution",
     population_trend |-> "Varies widely"],
    \* "jelly fish"
    [key |-> <<"j", "e", "l", "l", "y", " ", "f", "i", "s", "h">>,
     has_name |-> TRUE, name |-> <<"J", "e", "l", "l", "y", "f", "i", "s", "h">>,
     scientific_name |-> "Cnidaria",
     facts |-> "Jellyfish are ancient creatures composed of 95% water with no brain or heart.",
     endangered_status |-> "Most species stable",
     fun_fact |-> "Some jellyfish species are immortal and can reverse their aging process!",
     habitat |-> "All ocean environments",
     diet |-> "Plankton, small fish, and other jellyfish",
     size |-> "1mm to 2m bell diameter",
     threats |-> "Climate change, pollution",
     population_trend |-> "Many species increasing"],
    \* "lobster"
    [key |-> <<"l", "o", "b", "s", "t", "e", "r">>,
     has_name |-> TRUE, name |-> <<"L", "o", "b", "s", "t", "e", "r">>,
     scientific_name |-> "Nephropidae",
     facts |-> "Lobsters are large marine crustaceans with a long body and muscular tail, and a pair of large claws.",
     endangered_status |-> "Least Concern",
     fun_fact |-> "Lobsters can live for over 50 years and grow indefinitely!",
     habitat |-> "Ocean floors in temperate waters",
     diet |-> "Fish, crustaceans, and mollusks",
     size |-> "20-60cm",
     threats |-> "Overfishing",
     population_trend |-> "Stable"],
    \* "nudibranchs"
    [key |-> <<"n", "u", "d", "i", "b", "r", "a", "n", "c", "h", "s">>,
     has_name |-> TRUE, name |-> <<"N", "u", "d", "i", "b", "r", "a", "n", "c", "h", "s">>,
     scientific_name |-> "Nudibranchia",
     facts |-> "Nudibranchs, or sea slugs, are shell-less marine gastropod mollusks known for their vibrant colors.",
     endangered_status |-> "Not evaluated",
     fun_fact |-> "Nudibranchs steal stinging cells from jellyfish and use them for their own defense!",
     habitat |-> "Ocean floors worldwide",
     diet |-> "Sponges, anemones, and other nudibranchs",
     size |-> "5mm to 60cm",
     threats |-> "Pollution, habitat loss",
     population_trend |-> "Stable"],
    \* "otter"
    [key |-> <<"o", "t", "t", "e", "r">>,
     has_name |-> TRUE, name |-> <<"O", "t", "t", "e", "r">>,
     scientific_name |-> "Lutrinae",
     facts |-> "Otters are carnivorous mammals found in both marine and freshwater environments.",
     endangered_status |-> "Varies by species",
     fun_fact |-> "Sea otters use rocks as tools to crack open shellfish!",
     habitat |-> "Coastal waters and rivers worldwide",
     diet |-> "Fish, crustaceans, and mollusks",
     size |-> "60cm to 1.8m",
     threats |-> "Habitat loss, pollution, hunting",
     population_trend |-> "Varies by species"],
    \* "penguin"
    [key |-> <<"p", "e", "n", "g", "u", "i", "n">>,
     has_name |-> TRUE, name |-> <<"P", "e", "n", "g", "u", "i", "n">>,
     scientific_name |-> "Spheniscidae",
     facts |-> "Penguins are flightless birds that are highly adapted for life in the water.",
     endangered_status |-> "Varies by species",
     fun_fact |-> "Penguins can drink saltwater because they have a special gland to filter out the salt!",
     habitat |-> "Southern Hemisphere oceans and coastlines",
     diet |-> "Fish, squid, and krill",
     size |-> "30cm to 1.2m",
     threats |-> "Climate change, habitat loss, pollution",
     population_trend |-> "Varies by species"],
    \* "puffers"
    [key |-> <<"p", "u", "f", "f", "e", "r", "s">>,
     has_name |-> TRUE, name |-> <<"P", "u", "f", "f", "e", "r", "f", "i", "s", "h">>,
     scientific_name |-> "Tetraodontidae",
     facts |-> "Pufferfish can inflate their bodies and contain potent neurotoxins.",
     endangered_status |-> "Most species stable",
     fun_fact |-> "Some pufferfish create intricate sand circles to attract mates!",
     habitat |-> "Tropical and subtropical waters",
     diet |-> "Algae, invertebrates, and small fish",
     size |-> "2.5cm to 1.2m",
     threats |-> "Overfishing, habitat destruction",
     population_trend |-> "Generally stable"],
    \* "sea rays"
    [key |-> <<"s", "e", "a", " ", "r", "a", "y", "s">>,
     has_name |-> TRUE, name |-> <<"S", "e", "a", " ", "R", "a", "y", "s">>,
     scientific_name |-> "Batoidea",
     facts |-> "Rays are flattened cartilaginous fish related to sharks.",
     endangered_status |-> "Many species threatened",
     fun_fact |-> "Manta rays have the largest brain-to-body ratio of any fish!",
     habitat |-> "Ocean floors and open water",
     diet |-> "Plankton, small fish, mollusks",
     size |-> "10cm to 9m wingspan",
     threats |-> "Overfishing, bycatch, habitat loss",
     population_trend |-> "Declining"],
    \* "sea urchins"
    [key |-> <<"s", "e", "a", " ", "u", "r", "c", "h", "i", "n", "s">>,
     has_name |-> TRUE, name |-> <<"S", "e", "a", " ", "U", "r", "c", "h", "i", "n", "s">>,
     scientific_name |-> "Echinoidea",
     facts |-> "Sea urchins are spiny, globular marine echinoderms that live in the seabed.",
     endangered_status |-> "Most species stable",
     fun_fact |-> "Sea urchins use their spines for defense, movement, and to trap food!",
     habitat |-> "Ocean floors worldwide",
     diet |-> "Algae, small invertebrates, and decaying matter",
     size |-> "3-10cm diameter",
     threats |-> "Over-harvesting, pollution",
     population_trend |-> "Stable"],
    \* "sea lion"
    [key |-> <<"s", "e", "a", " ", "l", "i", "o", "n">>,
     has_name |-> TRUE, name |-> <<"S", "e", "a", " ", "L", "i", "o", "n">>,
     scientific_name |-> "Otariinae",
     facts |-> "Sea lions are pinnipeds known for their external ear flaps, long front flippers, and the ability to walk on all fours on land.",
     endangered_status |-> "Most species least concern",
     fun_fact |-> "Sea lions can bark like dogs and have a very social nature!",
     habitat |-> "Coastal waters and islands worldwide",
     diet |-> "Fish, squid, and crustaceans",
     size |-> "1.5-3m",
     threats |-> "Fishing gear entanglement, habitat destruction",
     population_trend |-> "Stable to declining"],
    \* "shrimp"
    [key |-> <<"s", "h", "r", "i", "m", "p">>,
     has_name |-> TRUE, name |-> <<"S", "h", "r", "i", "m", "p">>,
     scientific_name |-> "Pleocyemata",
     facts |-> "Shrimp are small marine crustaceans that are an important food source for many marine animals.",
     endangered_status |-> "Least Concern",
     fun_fact |-> "Some shrimp species can snap their claws so fast it creates a sound louder than a gunshot!",
     habitat |-> "All water environments",
     diet |-> "Algae, organic particles, and small invertebrates",
     size |-> "2-20cm",
     threats |-> "Overfishing, habitat destruction",
     population_trend |-> "Stable"],
    \* "squid"
    [key |-> <<"s", "q", "u", "i", "d">>,
     has_name |-> TRUE, name |-> <<"S", "q", "u", "i", "d">>,
     scientific_name |-> "Teuthida",
     facts |-> "Squid are cephalopods known for their large eyes, eight arms, two tentacles, and the ability to squirt ink.",
     endangered_status |-> "Least Concern",
     fun_fact |-> "Some squid species can fly out of the water for short distances!",
     habitat |-> "All ocean environments",
     diet |-> "Fish, crustaceans, and other squid",
     size |-> "5cm to 13m (giant squid)",
     threats |-> "Overfishing",
     population_trend |-> "Stable"],
    \* "starfish"
    [key |-> <<"s", "t", "a", "r", "f", "i", "s", "h">>,
     has_name |-> TRUE, name |-> <<"S", "t", "a", "r", "f", "i", "s", "h">>,
     scientific_name |-> "Asteroidea",
     facts |-> "Starfish are marine invertebrates with radial symmetry, typically having five arms.",
     endangered_status |-> "Least Concern",
     fun_fact |-> "Starfish can regenerate lost arms and sometimes even a whole new body!",
     habitat |-> "Ocean floors worldwide",
     diet |-> "Mollusks, crustaceans, and other invertebrates",
     size |-> "2cm to 1m",
     threats |-> "Habitat destruction, pollution",
     population_trend |-> "Stable"],
    \* "turtle_tortoise"
    [key |-> <<"t", "u", "r", "t", "l", "e", "_", "t", "o", "r", "t", "o", "i", "s", "e">>,
     has_name |-> TRUE, name |-> <<"S", "e", "a", " ", "T", "u", "r", "t", "l", "e">>,
     scientific_name |-> "Chelonioidea",
     facts |-> "Sea turtles are ancient marine reptiles that navigate using Earth's magnetic field.",
     endangered_status |-> "Most species endangered",
     fun_fact |-> "Sea turtles return to the same beach where they were born to nest!",
     habitat |-> "Oceans worldwide, nesting on beaches",
     diet |-> "Jellyfish, seagrass, algae, crustaceans",
     size |-> "60cm to 2m shell length",
     threats |-> "Plastic pollution, fishing nets, beach development",
     population_trend |-> "Declining globally"],
    \* "whale"
    [key |-> <<"w", "h", "a", "l", "e">>,
     has_name |-> TRUE, name |-> <<"W", "h", "a", "l", "e">>,
     scientific_name |-> "Cetacea",
     facts |-> "Whales are large marine mammals known for their intelligence and complex communication.",
     endangered_status |-> "Varies by species",
     fun_fact |-> "Blue whales are the largest animals ever known to have existed!",
     habitat |-> "All ocean environments worldwide",
     diet |-> "Krill, plankton, fish, and squid",
     size |-> "3m to 30m",
     threats |-> "Whaling, noise pollution, climate change",
     population_trend |-> "Varies by species"],
    \* "Fish"
    [key |-> <<"F", "i", "s", "h">>,
     has_name |-> TRUE, name |-> <<"F", "i", "s", "h">>,
     scientific_name |-> "Various",
     facts |-> "This category covers a wide range of aquatic vertebrates.",
     endangered_status |-> "Varies widely",
     fun_fact |-> "There are over 34,000 known species of fish!",
     habitat |-> "All water environments",
     diet |-> "Varies widely",
     size |-> "Varies widely",
     threats |-> "Overfishing, habitat destruction, pollution",
     population_trend |-> "Varies widely"],
    \* "Sea Lion"
    [key |-> <<"S", "e", "a", " ", "L", "i", "o", "n">>,
     has_name |-> TRUE, name |-> <<"S", "e", "a", " ", "L", "i", "o", "n">>,
     scientific_name |-> "Otariinae",
     facts |-> "Sea lions are pinnipeds known for their external ear flaps, long front flippers, and the ability to walk on all fours on land.",
     endangered_status |-> "Most species least concern",
     fun_fact |-> "Sea lions can bark like dogs and have a very social nature!",
     habitat |-> "Coastal waters and islands worldwide",
     diet |-> "Fish, squid, and crustaceans",
     size |-> "1.5-3m",
     threats |-> "Fishing gear entanglement, habitat destruction",
     population_trend |-> "Stable to declining"],
    \* "Sea Rays"
    [key |-> <<"S", "e", "a", " ", "R", "a", "y", "s">>,
     has_name |-> TRUE, name |-> <<"S", "e", "a", " ", "R", "a", "y", "s">>,
     scientific_name |-> "Batoidea",
     facts |-> "Rays are flattened cartilaginous fish related to sharks.",
     endangered_status |-> "Many species threatened",
     fun_fact |-> "Manta rays have the largest brain-to-body ratio of any fish!",
     habitat |-> "Ocean floors and open water",
     diet |-> "Plankton, small fish, mollusks",
     size |-> "10cm to 9m wingspan",
     threats |-> "Overfishing, bycatch, habitat loss",
     population_trend |-> "Declining"]
  >>

\* label keywords of each species, in dict order
marine_keywords ==
  <<
    \* 'fish': ['Fish', 'Tropical fish', 'Marine biology', 'Aquarium fish', 'Saltwater fish']
    [species |-> <<"f", "i", "s", "h">>,
     keywords |-> <<<<"F", "i", "s", "h">>,
                    <<"T", "r", "o", "p", "i", "c", "a", "l", " ", "f", "i", "s", "h">>,
                    <<"M", "a", "r", "i", "n", "e", " ", "b", "i", "o", "l", "o", "g", "y">>,
                    <<"A", "q", "u", "a", "r", "i", "u", "m", " ", "f", "i", "s", "h">>,
                    <<"S", "a", "l", "t", "w", "a", "t", "e", "r", " ", "f", "i", "s", "h">>>>],
    \* 'sharks': ['Shark', 'Great white shark', 'Tiger shark', 'Hammerhead shark']
    [species |-> <<"s", "h", "a", "r", "k", "s">>,
     keywords |-> <<<<"S", "h", "a", "r", "k">>,
                    <<"G", "r", "e", "a", "t", " ", "w", "h", "i", "t", "e", " ", "s", "h", "a", "r", "k">>,
                    <<"T", "i", "g", "e", "r", " ", "s", "h", "a", "r", "k">>,
                    <<"H", "a", "m", "m", "e", "r", "h", "e", "a", "d", " ", "s", "h", "a", "r", "k">>>>],
    \* 'turtle_tortoise': ['Sea turtle', 'Turtle', 'Marine turtle', 'Loggerhead turtle']
    [species |-> <<"t", "u", "r", "t", "l", "e", "_", "t", "o", "r", "t", "o", "i", "s", "e">>,
     keywords |-> <<<<"S", "e", "a", " ", "t", "u", "r", "t", "l", "e">>,
                    <<"T", "u", "r", "t", "l", "e">>,
                    <<"M", "a", "r", "i", "n", "e", " ", "t", "u", "r", "t", "l", "e">>,
                    <<"L", "o", "g", "g", "e", "r", "h", "e", "a", "d", " ", "t", "u", "r", "t", "l", "e">>>>],
    \* 'dolphin': ['Dolphin', 'Marine mammal', 'Bottlenose dolphin']
    [species |-> <<"d", "o", "l", "p", "h", "i", "n">>,
     keywords |-> <<<<"D", "o", "l", "p", "h", "i", "n">>,
                    <<"M", "a", "r", "i", "n", "e", " ", "m", "a", "m", "m", "a", "l">>,
                    <<"B", "o", "t", "t", "l", "e", "n", "o", "s", "e", " ", "d", "o", "l", "p", "h", "i", "n">>>>],
    \* 'whale': ['Whale', 'Humpback whale', 'Blue whale', 'Marine mammal']
    [species |-> <<"w", "h", "a", "l", "e">>,
     keywords |-> <<<<"W", "h", "a", "l", "e">>,
                    <<"H", "u", "m", "p", "b", "a", "c", "k", " ", "w", "h", "a", "l", "e">>,
                    <<"B", "l", "u", "e", " ", "w", "h", "a", "l", "e">>,
                    <<"M", "a", "r", "i", "n", "e", " ", "m", "a", "m", "m", "a", "l">>>>],
    \* 'octopus': ['Octopus', 'Cephalopod', 'Marine invertebrate']
    [species |-> <<"o", "c", "t", "o", "p", "u", "s">>,
     keywords |-> <<<<"O", "c", "t", "o", "p", "u", "s">>,
                    <<"C", "e", "p", "h", "a", "l", "o", "p", "o", "d">>,
                    <<"M", "a", "r", "i", "n", "e", " ", "i", "n", "v", "e", "r", "t", "e", "b", "r", "a", "t", "e">>>>],
    \* 'jelly fish': ['Jellyfish', 'Cnidaria', 'Marine invertebrate']
    [species |-> <<"j", "e", "l", "l", "y", " ", "f", "i", "s", "h">>,
     keywords |-> <<<<"J", "e", "l", "l", "y", "f", "i", "s", "h">>,
                    <<"C", "n", "i", "d", "a", "r", "i", "a">>,
                    <<"M", "a", "r", "i", "n", "e", " ", "i", "n", "v", "e", "r", "t", "e", "b", "r", "a", "t", "e">>>>],
    \* 'seahorse': ['Seahorse', 'Marine fish']
    [species |-> <<"s", "e", "a", "h", "o", "r", "s", "e">>,
     keywords |-> <<<<"S", "e", "a", "h", "o", "r", "s", "e">>,
                    <<"M", "a", "r", "i", "n", "e", " ", "f", "i", "s", "h">>>>],
    \* 'starfish': ['Starfish', 'Sea star', 'Echinoderm']
    [species |-> <<"s", "t", "a", "r", "f", "i", "s", "h">>,
     keywords |-> <<<<"S", "t", "a", "r", "f", "i", "s", "h">>,
                    <<"S", "e", "a", " ", "s", "t", "a", "r">>,
                    <<"E", "c", "h", "i", "n", "o", "d", "e", "r", "m">>>>],
    \* 'crabs': ['Crab', 'Crustacean', 'Marine arthropod']
    [species |-> <<"c", "r", "a", "b", "s">>,
     keywords |-> <<<<"C", "r", "a", "b">>,
                    <<"C", "r", "u", "s", "t", "a", "c", "e", "a", "n">>,
                    <<"M", "a", "r", "i", "n", "e", " ", "a", "r", "t", "h", "r", "o", "p", "o", "d">>>>],
    \* 'lobster': ['Lobster', 'Crustacean']
    [species |-> <<"l", "o", "b", "s", "t", "e", "r">>,
     keywords |-> <<<<"L", "o", "b", "s", "t", "e", "r">>,
                    <<"C", "r", "u", "s", "t", "a", "c", "e", "a", "n">>>>],
    \* 'shrimp': ['Shrimp', 'Prawn', 'Crustacean']
    [species |-> <<"s", "h", "r", "i", "m", "p">>,
     keywords |-> <<<<"S", "h", "r", "i", "m", "p">>,
                    <<"P", "r", "a", "w", "n">>,
                    <<"C", "r", "u", "s", "t", "a", "c", "e", "a", "n">>>>],
    \* 'corals': ['Coral', 'Coral reef', 'Marine organism']
    [species |-> <<"c", "o", "r", "a", "l", "s">>,
     keywords |-> <<<<"C", "o", "r", "a", "l">>,
                    <<"C", "o", "r", "a", "l", " ", "r", "e", "e", "f">>,
                    <<"M", "a", "r", "i", "n", "e", " ", "o", "r", "g", "a", "n", "i", "s", "m">>>>],
    \* 'sea urchins': ['Sea urchin', 'Echinoderm']
    [species |-> <<"s", "e", "a", " ", "u", "r", "c", "h", "i", "n", "s">>,
     keywords |-> <<<<"S", "e", "a", " ", "u", "r", "c", "h", "i", "n">>,
                    <<"E", "c", "h", "i", "n", "o", "d", "e", "r", "m">>>>],
    \* 'eel': ['Eel', 'Moray eel', 'Electric eel']
    [species |-> <<"e", "e", "l">>,
     keywords |-> <<<<"E", "e", "l">>,
                    <<"M", "o", "r", "a", "y", " ", "e", "e", "l">>,
                    <<"E", "l", "e", "c", "t", "r", "i", "c", " ", "e", "e", "l">>>>],
    \* 'sea rays': ['Ray', 'Stingray', 'Manta ray', 'Skate']
    [species |-> <<"s", "e", "a", " ", "r", "a", "y", "s">>,
     keywords |-> <<<<"R", "a", "y">>,
                    <<"S", "t", "i", "n", "g", "r", "a", "y">>,
                    <<"M", "a", "n", "t", "a", " ", "r", "a", "y">>,
                    <<"S", "k", "a", "t", "e">>>>],
    \* 'seal': ['Seal', 'Sea lion', 'Marine mammal']
    [species |-> <<"s", "e", "a", "l">>,
     keywords |-> <<<<"S", "e", "a", "l">>,
                    <<"S", "e", "a", " ", "l", "i", "o", "n">>,
                    <<"M", "a", "r", "i", "n", "e", " ", "m", "a", "m", "m", "a", "l">>>>],
    \* 'penguin': ['Penguin', 'Marine bird']
    [species |-> <<"p", "e", "n", "g", "u", "i", "n">>,
     keywords |-> <<<<"P", "e", "n", "g", "u", "i", "n">>,
                    <<"M", "a", "r", "i", "n", "e", " ", "b", "i", "r", "d">>>>],
    \* 'puffers': ['Pufferfish', 'Blowfish']
    [species |-> <<"p", "u", "f", "f", "e", "r", "s">>,
     keywords |-> <<<<"P", "u", "f", "f", "e", "r", "f", "i", "s", "h">>,
                    <<"B", "l", "o", "w", "f", "i", "s", "h">>>>]
  >>

----------------------------------------------------------------------------
(* get_animal_details                                                      *)

InfoKeys ==
  {"scientific_name", "facts", "endangered_status", "fun_fact", "habitat",
   "diet", "size", "threats", "population_trend"}

ResultFields == InfoKeys \cup {"name", "confidence", "detection_method"}

\* key.lower().replace('_', ' ')
fold_key(s) == replace_underscore(lower(s))

\* the record returned when no key of the table matches
default_details(animal_name) ==
  [name              |-> replace_underscore(animal_name),
   scientific_name   |-> Txt("Unknown"),
   facts             |-> Fmt("This appears to be a {}, a marine species found in ocean environments.",
                             replace_underscore(animal_name)),
   endangered_status |-> Txt("Unknown"),
   fun_fact          |-> Txt("Marine ecosystems are incredibly diverse with unique adaptations!"),
   habitat           |-> Txt("Marine environments"),
   diet              |-> Txt("Varies by species"),
   size              |-> Txt("Varies by species"),
   threats           |-> Txt("Climate change, pollution, overfishing"),
   population_trend  |-> Txt("Unknown")]

\* details.copy(), with the name the caller gave when the entry has none
entry_details(d, animal_name) ==
  [name              |-> IF d.has_name THEN d.name ELSE animal_name,
   scientific_name   |-> Txt(d.scientific_name),
   facts             |-> Txt(d.facts),
   endangered_status |-> Txt(d.endangered_status),
   fun_fact          |-> Txt(d.fun_fact),
   habitat           |-> Txt(d.habitat),
   diet              |-> Txt(d.diet),
   size              |-> Txt(d.size),
   threats           |-> Txt(d.threats),
   population_trend  |-> Txt(d.population_trend)]

\* the first entry, in table order, whose folded key equals the folded name
get_animal_details(animal_name) ==
  LET hits == {i \in 1..Len(animal_database) :
                 fold_key(animal_database[i].key) = fold_key(animal_name)}
  IN  IF hits = {}
      THEN default_details(animal_name)
      ELSE entry_details(animal_database[CHOOSE i \in hits : \A j \in hits : i <= j],
                         animal_name)

----------------------------------------------------------------------------
(* vision_api_fallback.py                                                  *)

\* round(x, 1) of a percentage held in hundredths (no input ends in 5)
round1(c) == ((c + 5) \div 10) * 10

\* what a call returns or raises: try/except is IF r.raised
Return(v) == [raised |-> FALSE, value |-> v]

Raise == [raised |-> TRUE, value |-> [none |-> TRUE]]

\* Python None, as the return value of the pipeline
None == [none |-> TRUE]

\* the dict returned when gemini_model is None
gemini_unconfigured(species_name) ==
  [scientific_name   |-> Txt("Unknown"),
   facts             |-> Fmt("This appears to be a {}.", species_name),
   endangered_status |-> Txt("Unknown"),
   fun_fact          |-> Fmt("Interesting marine species: {}", species_name),
   habitat           |-> Txt("Marine environment"),
   diet              |-> Txt("Varies by species"),
   size              |-> Txt("Varies"),
   threats           |-> Txt("Climate change and human activities"),
   population_trend  |-> Txt("Unknown")]

\* the dict returned when the generative call or json.loads raises
gemini_failed(species_name) ==
  [scientific_name   |-> Txt("Unknown"),
   facts             |-> Fmt("This appears to be a {} identified by Vision API.", species_name),
   endangered_status |-> Txt("Unknown"),
   fun_fact          |-> Fmt("Marine species: {}", species_name),
   habitat           |-> Txt("Marine environment"),
   diet              |-> Txt("Varies by species"),
   size              |-> Txt("Varies"),
   threats           |-> Txt("Climate change and human activities"),
   population_trend  |-> Txt("Unknown")]

\* json.loads(response.text) when the text is JSON: whatever keys it holds
\* (a JSON value that is no object is the case keys = {}: indexing it raises too)
gemini_parsed(g) == [k \in g.keys |-> Txt("<generated>")]

\* g is the generative service's answer: kind "raise" (the call raises),
\* "text" (the answer is no JSON) or "json" (JSON with the keys g.keys)
get_species_details_from_gemini(gemini_model, g, species_name) ==
  IF ~gemini_model
  THEN gemini_unconfigured(species_name)
  ELSE IF g.kind = "json"
       THEN gemini_parsed(g)
       ELSE gemini_failed(species_name)

\* keyword.lower() of every keyword, computed once
keywords_lower ==
  [i \in 1..Len(marine_keywords) |->
     [k \in 1..Len(marine_keywords[i].keywords) |-> lower(marine_keywords[i].keywords[k])]]

\* one object against the keyword table: the species loop from index i on;
\* st is <<best_match, highest_confidence>>; the break leaves the keyword
\* loop only, so later species are still compared. (The singleton sets bind
\* obj_name.lower() and the loop state to values.)
RECURSIVE scan_species(_, _, _)
scan_species(obj, i, st) ==
  IF i > Len(marine_keywords)
  THEN st
  ELSE LET hit == \E name \in {lower(obj.name)} :
                    \E k \in 1..Len(keywords_lower[i]) :
                       contains(name, keywords_lower[i][k])
       IN  CHOOSE r \in {scan_species(obj, i + 1, nxt) :
                           nxt \in {IF hit /\ obj.score > st[2]
                                    THEN <<marine_keywords[i].species, obj.score>>
                                    ELSE st}} : TRUE

\* the object loop from index j on
RECURSIVE scan_objects(_, _, _)
scan_objects(objects, j, st) ==
  IF j > Len(objects)
  THEN st
  ELSE CHOOSE r \in {scan_objects(objects, j + 1, nxt) :
                       nxt \in {scan_species(objects[j], 1, st)}} : TRUE

\* best_match (<<>> is None) and highest_confidence after the loops
best_match(objects) == scan_objects(objects, 1, <<(<<>>), 0>>)

\* (variant) the dict built from whatever keys the generated JSON holds
vision_match_record_unchecked(species_name, confidence_percentage, species_info) ==
  Return([k \in (InfoKeys \cap DOMAIN species_info) \cup {"name", "confidence", "detection_method"} |->
            CASE k = "name" -> species_name
              [] k = "confidence" -> round1(confidence_percentage)
              [] k = "detection_method" -> "Google Cloud Vision API"
              [] OTHER -> species_info[k]])

\* the dict built when a species matched; species_info[k] raises KeyError
\* for a key the generated JSON lacks
vision_match_record(species_name, confidence_percentage, species_info) ==
  IF InfoKeys \subseteq DOMAIN species_info
  THEN Return([name              |-> species_name,
               scientific_name   |-> species_info["scientific_name"],
               confidence        |-> round1(confidence_percentage),
               facts             |-> species_info["facts"],
               endangered_status |-> species_info["endangered_status"],
               fun_fact          |-> species_info["fun_fact"],
               habitat           |-> species_info["habitat"],
               diet              |-> species_info["diet"],
               size              |-> species_info["size"],
               threats           |-> species_info["threats"],
               population_trend  |-> species_info["population_trend"],
               detection_method  |-> "Google Cloud Vision API"])
  ELSE Raise

vision_unknown_record ==
  [name              |-> <<"U", "n", "k", "n", "o", "w", "n", " ", "M", "a", "r", "i", "n", "e", " ",
                           "S", "p", "e", "c", "i", "e", "s">>,
   scientific_name   |-> Txt("Unknown"),
   confidence        |-> 0,
   facts             |-> Txt("Could not identify a specific marine species in this image using Google Cloud Vision API."),
   endangered_status |-> Txt("Unknown"),
   fun_fact          |-> Txt("Try uploading a clearer image of a marine animal."),
   habitat           |-> Txt("Unknown"),
   diet              |-> Txt("Unknown"),
   size              |-> Txt("Unknown"),
   threats           |-> Txt("Unknown"),
   population_trend  |-> Txt("Unknown"),
   detection_method  |-> "Google Cloud Vision API"]

\* the dict the except clause returns
vision_error_record ==
  [name              |-> <<"V", "i", "s", "i", "o", "n", " ", "A", "P", "I", " ", "E", "r", "r", "o", "r">>,
   scientific_name   |-> Txt("Unknown"),
   confidence        |-> 0,
   facts             |-> Fmt("Google Cloud Vision API error: {}", <<"str(e)">>),
   endangered_status |-> Txt("Unknown"),
   fun_fact          |-> Txt("Please try again or check your Vision API credentials."),
   habitat           |-> Txt("Unknown"),
   diet              |-> Txt("Unknown"),
   size              |-> Txt("Unknown"),
   threats           |-> Txt("Unknown"),
   population_trend  |-> Txt("Unknown"),
   detection_method  |-> "Google Cloud Vision API (Error)"]

\* a try block that treats "no species matched" as a failure
vision_try_strict(gemini_model, v, g) ==
  IF v.fail # "none"
  THEN Raise
  ELSE LET bm == best_match(v.objects)
       IN  IF bm[1] # <<>>
           THEN LET species_name == title(replace_underscore(bm[1]))
                IN  vision_match_record(species_name, bm[2],
                       get_species_details_from_gemini(gemini_model, g, species_name))
           ELSE Raise

\* the body of the try block. v is the vision service's answer: v.fail is
\* "client" (setup_vision_client returns None), "read" (the file cannot be
\* read), "api" (response.error.message is set) or "none", with v.objects
vision_try(gemini_model, v, g) ==
  IF v.fail # "none"
  THEN Raise
  ELSE LET bm == best_match(v.objects)
       IN  IF bm[1] # <<>>
           THEN LET species_name == title(replace_underscore(bm[1]))
                IN  vision_match_record(species_name, bm[2],
                       get_species_details_from_gemini(gemini_model, g, species_name))
           ELSE Return(vision_unknown_record)

\* the except clause: any exception of the try block becomes the error dict
vision_except(r) == IF r.raised THEN Return(vision_error_record) ELSE r

identify_marine_species_with_vision_api(gemini_model, v, g) ==
  vision_except(vision_try(gemini_model, v, g))

----------------------------------------------------------------------------
(* identify_species_with_h5                                                *)

\* the confidence cutoff of the local classifier, in percent
CONFIDENCE_THRESHOLD == 85

\* a record that is named after the class whatever the table says
local_record_class_name(l) ==
  LET species_name   == SPECIES_NAMES[l.idx + 1]
      animal_details == get_animal_details(species_name)
  IN  [name              |-> species_name,
       scientific_name   |-> animal_details.scientific_name,
       confidence        |-> round1(l.conf),
       facts             |-> animal_details.facts,
       endangered_status |-> animal_details.endangered_status,
       fun_fact          |-> animal_details.fun_fact,
       habitat           |-> animal_details.habitat,
       diet              |-> animal_details.diet,
       size              |-> animal_details.size,
       threats           |-> animal_details.threats,
       population_trend  |-> animal_details.population_trend,
       detection_method  |-> "H5 Model"]

\* the dict built from a local prediction the code accepts
local_record(l) ==
  LET species_name   == SPECIES_NAMES[l.idx + 1]
      animal_details == get_animal_details(species_name)
  IN  [name              |-> animal_details.name,
       scientific_name   |-> animal_details.scientific_name,
       confidence        |-> round1(l.conf),
       facts             |-> animal_details.facts,
       endangered_status |-> animal_details.endangered_status,
       fun_fact          |-> animal_details.fun_fact,
       habitat           |-> animal_details.habitat,
       diet              |-> animal_details.diet,
       size              |-> animal_details.size,
       threats           |-> animal_details.threats,
       population_trend  |-> animal_details.population_trend,
       detection_method  |-> "H5 Model"]

\* (variant) a cutoff of 90
local_accepts_strict(l) ==
  l.conf > 9000 /\ l.idx < Len(SPECIES_NAMES)

\* (variant) a cutoff of 80
local_accepts_lenient(l) ==
  l.conf > 8000 /\ l.idx < Len(SPECIES_NAMES)

\* confidence > 85 and predicted_class_index < len(SPECIES_NAMES)
local_accepts(l) ==
  l.conf > CONFIDENCE_THRESHOLD * 100 /\ l.idx < Len(SPECIES_NAMES)

\* what a block of the pipeline did: returned value (done), or fell through
\* to the code after it; calls counts the vision calls made so far
Done(v, n) == [done |-> TRUE, value |-> v, calls |-> n]

Fell(n) == [done |-> FALSE, value |-> None, calls |-> n]

\* the block under `if model is not None:`, with its except clause.
\* c is the process configuration, e the collaborators' answers
local_block(c, e) ==
  IF e.local.raises
  THEN Fell(0)
  ELSE IF local_accepts(e.local)
       THEN Done(local_record(e.local), 0)
       ELSE IF c.vision
            THEN LET r == identify_marine_species_with_vision_api(c.gemini, e.vision, e.gemini)
                 IN  IF r.raised THEN Fell(1) ELSE Done(r.value, 1)
            ELSE Fell(0)

\* a second block that answers with the unknown-species record when the
\* vision fallback is unavailable
vision_block_unknown(c, e, n) ==
  IF c.vision
  THEN LET r == identify_marine_species_with_vision_api(c.gemini, e.vision, e.gemini)
       IN  IF r.raised THEN Fell(n + 1) ELSE Done(r.value, n + 1)
  ELSE Done(vision_unknown_record, n)

\* the block under the second `if VISION_API_AVAILABLE:`; n vision calls so far
vision_block(c, e, n) ==
  IF c.vision
  THEN LET r == identify_marine_species_with_vision_api(c.gemini, e.vision, e.gemini)
       IN  IF r.raised THEN Fell(n + 1) ELSE Done(r.value, n + 1)
  ELSE Fell(n)

\* the return value (None when both blocks fell through) and the number of
\* calls of the vision fallback the run made
identify_species_with_h5(c, e) ==
  LET first  == IF c.model THEN local_block(c, e) ELSE Fell(0)
      second == IF first.done THEN first ELSE vision_block(c, e, first.calls)
  IN  [raised |-> FALSE, value |-> second.value, vision_calls |-> second.calls]

----------------------------------------------------------------------------
(* Inputs of a pipeline run                                                *)

\* longest list of objects the vision service returns
MaxObjects == 2

LocalConfs == {8499, 8500, 8501, 9200}

\* 6 is Sharks, 9 is one past the class list
LocalIdxs == {6, 9}

LocalOutcomes ==
  {[raises |-> TRUE, conf |-> 0, idx |-> 0]}
    \cup [raises : {FALSE}, conf : LocalConfs, idx : LocalIdxs]

GreatWhiteShark ==
  <<"G", "r", "e", "a", "t", " ", "w", "h", "i", "t", "e", " ", "s", "h", "a", "r", "k">>

Person == <<"P", "e", "r", "s", "o", "n">>

PipelineObjects == [name : {GreatWhiteShark, Person}, score : {3000, 9000}]

RECURSIVE SeqsUpTo(_, _)
SeqsUpTo(S, n) ==
  IF n = 0
  THEN {<<>>}
  ELSE LET shorter == SeqsUpTo(S, n - 1)
       IN  shorter \cup {Append(s, x) : s \in shorter, x \in S}

VisionOutcomes ==
  [fail : {"client", "read", "api"}, objects : {<<>>}]
    \cup [fail : {"none"}, objects : SeqsUpTo(PipelineObjects, MaxObjects)]

GeminiOutcomes ==
  [kind : {"raise", "text"}, keys : {{}}]
    \cup [kind : {"json"}, keys : {InfoKeys, InfoKeys \ {"scientific_name"}, {}}]

Envs == [local : LocalOutcomes, vision : VisionOutcomes, gemini : GeminiOutcomes]

Configs == [model : BOOLEAN, vision : BOOLEAN, gemini : BOOLEAN]

NoEnv ==
  [local  |-> [raises |-> TRUE, conf |-> 0, idx |-> 0],
   vision |-> [fail |-> "client", objects |-> <<>>],
   gemini |-> [kind |-> "raise", keys |-> {}]]

NotRun == [ran |-> FALSE, raised |-> FALSE, value |-> None, vision_calls |-> 0]

----------------------------------------------------------------------------
(* models.py: the users collection                                         *)

\* werkzeug generate_password_hash: "method$salt$digest" of the password,
\* with a fresh salt; the digest stands for the password it was made from
generate_password_hash(password, salt) == <<"pbkdf2:sha256", salt>> \o password

\* werkzeug check_password_hash: a string that is no "method$salt$digest"
\* matches nothing; otherwise the digest is recomputed from the password
check_password_hash(pwhash, password) ==
  /\ Len(pwhash) >= 2
  /\ pwhash[1] = "pbkdf2:sha256"
  /\ SubSeq(pwhash, 3, Len(pwhash)) = password

\* User.__init__ and to_dict: <<>> is None; the password argument, when
\* given, is hashed
User(username, email, password, salt, firebase_uid) ==
  [username      |-> username,
   email         |-> email,
   password_hash |-> IF password # <<>> THEN generate_password_hash(password, salt) ELSE <<>>,
   firebase_uid  |-> firebase_uid,
   bio           |-> <<>>]

\* find_one: the _id (position) of the first document that matches, 0 for None
find_by_username(coll, username) ==
  LET hits == {i \in 1..Len(coll) : coll[i].username = username}
  IN  IF hits = {} THEN 0 ELSE CHOOSE i \in hits : \A j \in hits : i <= j

find_by_email(coll, email) ==
  LET hits == {i \in 1..Len(coll) : coll[i].email = email}
  IN  IF hits = {} THEN 0 ELSE CHOOSE i \in hits : \A j \in hits : i <= j

find_by_firebase_uid(coll, firebase_uid) ==
  LET hits == {i \in 1..Len(coll) : coll[i].firebase_uid = firebase_uid}
  IN  IF hits = {} THEN 0 ELSE CHOOSE i \in hits : \A j \in hits : i <= j

find_by_id(coll, user_id) == IF user_id \in 1..Len(coll) THEN user_id ELSE 0

\* (variant) a collection without the unique indexes
duplicate_key_unindexed(coll, doc, self) == FALSE

\* the unique indexes on username and email: a write of doc as document
\* `self` (0 for an insert) collides with another document
duplicate_key(coll, doc, self) ==
  \E i \in 1..Len(coll) :
     /\ i # self
     /\ (coll[i].username = doc.username \/ coll[i].email = doc.email)

\* User.save: insert_one, which raises DuplicateKeyError on a collision
User_save(coll, doc) ==
  IF duplicate_key(coll, doc, 0)
  THEN [raised |-> TRUE, users |-> coll]
  ELSE [raised |-> FALSE, users |-> Append(coll, doc)]

\* User.update(username=, email=, bio=): update_one with $set
User_update(coll, id, username, email, bio) ==
  LET doc == [coll[id] EXCEPT !.username = username, !.email = email, !.bio = bio]
  IN  IF duplicate_key(coll, doc, id)
      THEN [raised |-> TRUE, users |-> coll]
      ELSE [raised |-> FALSE, users |-> [coll EXCEPT ![id] = doc]]

----------------------------------------------------------------------------
(* app.py: sessions and the authentication handlers                        *)

Clients == {1, 2}

\* most documents of the users collection
MaxUsers == 3

Usernames == {<<"ann">>, <<"bob">>}

Emails == {<<"ann", "x.org">>, <<"bob", "x.org">>}

Passwords == {<<"pw1">>, <<"pw2">>}

\* the salt is random; nothing in the code compares salts
Salts == {"s1"}

FirebaseUids == {<<"uid1">>, <<"uid2">>}

RegisterForms == [username : Usernames, email : Emails, password : Passwords]

LoginForms == [username : Usernames \cup Emails, password : Passwords]

\* a cookie session: user_id and username are the keys the handlers set,
\* fl_user_id is the key flask-login keeps; 0 and <<>> are "not in session"
NoSession == [user_id |-> 0, username |-> <<>>, fl_user_id |-> 0]

\* the response: status code, what is rendered or where it redirects, and
\* the JSON body when there is one
Resp(route, c, code, body, json) ==
  [route |-> route, client |-> c, code |-> code, body |-> body, json |-> json]

\* no request answered yet
NoResp == [route |-> "none"]

\* a decorator that lets every request through
login_required_open(c) == TRUE

\* login_required: 'user_id' not in session
login_required(c) == session[c].user_id # 0

\* current_user.is_authenticated: flask-login loads the user of its own key
is_authenticated(c) == find_by_id(users, session[c].fl_user_id) # 0

\* login_user(user) with session['user_id'] and session['username']
logged_in(s, coll, id) ==
  [user_id |-> id, username |-> coll[id].username, fl_user_id |-> id]

\* the two look-ups of register: which one refuses the form
register_check(coll, username, email) ==
  IF find_by_username(coll, username) # 0
  THEN "Username already exists"
  ELSE IF find_by_email(coll, email) # 0
       THEN "Email already registered"
       ELSE "ok"

\* the User that register builds: the form's password is hashed by the
\* handler (salt1) and the result is hashed again by User.__init__ (salt2)
register_user(username, email, password, salt1, salt2) ==
  User(username, email, generate_password_hash(password, salt1), salt2, <<>>)

\* (variant) a register that writes the form over the user of that name
register_post_overwrite(coll, username, email, password, salt1, salt2) ==
  LET id == find_by_username(coll, username)
      new == register_user(username, email, password, salt1, salt2)
  IN  IF id # 0
      THEN [users |-> [coll EXCEPT ![id] = new], code |-> 302, body |-> "redirect:/login"]
      ELSE [users |-> Append(coll, new), code |-> 302, body |-> "redirect:/login"]

\* the POST branch of register: the collection afterwards and the response
\* (an exception of user.save() is not caught: a 500)
register_post(coll, username, email, password, salt1, salt2) ==
  LET refused == register_check(coll, username, email)
      saved   == User_save(coll, register_user(username, email, password, salt1, salt2))
  IN  IF refused # "ok"
      THEN [users |-> coll, code |-> 200, body |-> "render:register.html"]
      ELSE IF saved.raised
           THEN [users |-> coll, code |-> 500, body |-> "error"]
           ELSE [users |-> saved.users, code |-> 302, body |-> "redirect:/login"]

\* a POST of one of the forms F to /register
Register(c, F) ==
  \E form \in F, salt1 \in Salts, salt2 \in Salts :
    LET username == form.username
        email    == form.email
        password == form.password
        r == register_post(users, username, email, password, salt1, salt2)
    IN  /\ Len(r.users) <= MaxUsers
        /\ users' = r.users
        /\ resp' = Resp("register", c, r.code, r.body, form)
        /\ UNCHANGED <<cfg, uploads, global_stats, session, inflight, clock, env, out>>

\* the POST branch of login; name is a username or an e-mail address
Login(c, F) ==
  \E form \in F :
    LET name     == form.username
        password == form.password
        byname   == find_by_username(users, name)
        user     == IF byname # 0 THEN byname ELSE find_by_email(users, name)
    IN  /\ IF is_authenticated(c)
           THEN /\ resp' = Resp("login", c, 302, "redirect:/dashboard", form)
                /\ UNCHANGED session
           ELSE IF user # 0 /\ users[user].password_hash = <<>>
           THEN \* check_password_hash(None, password) raises
                /\ resp' = Resp("login", c, 500, "error", form)
                /\ UNCHANGED session
           ELSE IF user # 0 /\ check_password_hash(users[user].password_hash, password)
           THEN /\ session' = [session EXCEPT ![c] = logged_in(@, users, user)]
                /\ resp' = Resp("login", c, 302, "redirect:/dashboard", form)
           ELSE /\ resp' = Resp("login", c, 200, "render:login.html", form)
                /\ UNCHANGED session
        /\ UNCHANGED <<cfg, users, uploads, global_stats, inflight, clock, env, out>>

\* logout: logout_user() removes flask-login's keys from the session
Logout(c) ==
  /\ session' = [session EXCEPT ![c] =
                   IF is_authenticated(c) THEN [@ EXCEPT !.fl_user_id = 0] ELSE @]
  /\ resp' = Resp("logout", c, 302, "redirect:/", None)
  /\ UNCHANGED <<cfg, users, uploads, global_stats, inflight, clock, env, out>>

Dashboard(c) ==
  /\ resp' = IF ~login_required(c)
             THEN Resp("dashboard", c, 302, "redirect:/login", None)
             ELSE Resp("dashboard", c, 200, "render:dashboard.html",
                       [user |-> find_by_id(users, session[c].user_id)])
  /\ UNCHANGED <<cfg, users, uploads, global_stats, session, inflight, clock, env, out>>

\* the ID token of a request: none, a malformed one, an expired one, one
\* whose session was revoked, one whose check cannot be carried out, or a
\* good one (email <<>> is a token without an e-mail claim)
FirebaseTokens ==
  [kind : {"missing", "invalid", "expired", "error"},
   uid : {<<>>}, email : {<<>>}]
    \cup [kind : {"valid", "revoked"}, uid : FirebaseUids, email : Emails \cup {<<>>}]

\* auth.verify_id_token(id_token): the call leaves check_revoked at its
\* default False, so revocation is not looked up and a revoked token that
\* is otherwise good is decoded like a valid one
verify_id_token(token) ==
  IF token.kind = "invalid" THEN "InvalidIdTokenError"
  ELSE IF token.kind = "expired" THEN "ExpiredIdTokenError"
  ELSE IF token.kind = "error" THEN "Exception"
  ELSE "decoded"

\* the response of firebase_login, with the token it answers
FirebaseResp(c, code, json, token) ==
  [route |-> "firebase_login", client |-> c, code |-> code, body |-> "json",
   json |-> json, did |-> [token |-> token]]

\* the while loop of firebase_login: base, base_1, base_2, ...
RECURSIVE firebase_username(_, _, _, _)
firebase_username(coll, base_username, username, counter) ==
  IF find_by_username(coll, username) = 0
  THEN username
  ELSE firebase_username(coll, base_username,
                         base_username \o <<"_", ToString(counter)>>, counter + 1)

\* the user firebase_login creates for a token that matches no user (the
\* uids of the model are no longer than the eight characters the username
\* keeps of them)
firebase_user(coll, token) ==
  LET base_username == IF token.email # <<>>
                       THEN <<token.email[1]>>
                       ELSE <<"firebase_">> \o token.uid
      username == firebase_username(coll, base_username, base_username, 1)
  IN  User(username,
           IF token.email # <<>> THEN token.email ELSE token.uid \o <<"firebase.local">>,
           <<>>, "", token.uid)

\* the user a valid token resolves to (0: none, one has to be created)
firebase_lookup(coll, token) ==
  LET byuid == find_by_firebase_uid(coll, token.uid)
  IN  IF byuid # 0 THEN byuid ELSE find_by_email(coll, token.email)

FirebaseLogin(c, T) ==
  \E token \in T :
    LET answer == verify_id_token(token)
        found  == firebase_lookup(users, token)
        saved  == User_save(users, firebase_user(users, token))
        user   == IF found # 0 THEN found ELSE Len(saved.users)
    IN  IF token.kind = "missing"
        THEN /\ resp' = FirebaseResp(c, 400, [success |-> FALSE], token)
             /\ UNCHANGED <<cfg, users, uploads, global_stats, session, inflight, clock, env, out>>
        ELSE IF answer \in {"InvalidIdTokenError", "ExpiredIdTokenError", "RevokedIdTokenError"}
        THEN /\ resp' = FirebaseResp(c, 401, [success |-> FALSE], token)
             /\ UNCHANGED <<cfg, users, uploads, global_stats, session, inflight, clock, env, out>>
        ELSE IF answer = "Exception" \/ (found = 0 /\ saved.raised)
        THEN /\ resp' = FirebaseResp(c, 500, [success |-> FALSE], token)
             /\ UNCHANGED <<cfg, users, uploads, global_stats, session, inflight, clock, env, out>>
        ELSE /\ found = 0 => Len(saved.users) <= MaxUsers
             /\ users' = IF found # 0 THEN users ELSE saved.users
             /\ session' = [session EXCEPT ![c] = logged_in(@, users', user)]
             /\ resp' = FirebaseResp(c, 200,
                                      [success |-> TRUE, id |-> user,
                                       username |-> users'[user].username], token)
             /\ UNCHANGED <<cfg, uploads, global_stats, inflight, clock, env, out>>

\* what the OAuth exchange answers: no code, a refused exchange, or the
\* userinfo document (name <<>> is a document without a name)
GoogleAnswers ==
  [kind : {"nocode", "refused"}, email : {<<>>}, name : {<<>>}]
    \cup [kind : {"userinfo"}, email : Emails, name : {<<"ann">>, <<>>}]

\* the while loop of google_callback: each round appends to the name of the
\* round before
RECURSIVE google_username(_, _, _)
google_username(coll, base_username, counter) ==
  IF find_by_username(coll, base_username) = 0
  THEN base_username
  ELSE google_username(coll, base_username \o <<"_", ToString(counter)>>, counter + 1)

\* the user google_callback creates: the hash of the temporary password is
\* replaced by the marker 'oauth_google'
google_user(coll, info) ==
  [User(google_username(coll, IF info.name # <<>> THEN info.name ELSE <<"google_user">>, 1),
        info.email, <<>>, "", <<>>)
   EXCEPT !.password_hash = <<"oauth_google">>]

\* google_client is set at import by WebApplicationClient(GOOGLE_CLIENT_ID), a
\* name app.py does not import; cfg.google_client = TRUE is a process in
\* which that call succeeded
\* the response of google_callback, with the answer of the exchange
GoogleResp(c, body, info) ==
  [route |-> "google_callback", client |-> c, code |-> 302, body |-> body,
   json |-> None, did |-> [info |-> info]]

GoogleCallback(c, A) ==
  \E info \in A :
    LET found == find_by_email(users, info.email)
        saved == User_save(users, google_user(users, info))
        user  == IF found # 0 THEN found ELSE Len(saved.users)
    IN  IF ~cfg.google_client \/ info.kind # "userinfo" \/ (found = 0 /\ saved.raised)
        THEN /\ resp' = GoogleResp(c, "redirect:/login", info)
             /\ UNCHANGED <<cfg, users, uploads, global_stats, session, inflight, clock, env, out>>
        ELSE /\ found = 0 => Len(saved.users) <= MaxUsers
             /\ users' = IF found # 0 THEN users ELSE saved.users
             /\ session' = [session EXCEPT ![c] = logged_in(@, users', user)]
             /\ resp' = GoogleResp(c, "redirect:/dashboard", info)
             /\ UNCHANGED <<cfg, uploads, global_stats, inflight, clock, env, out>>

\* the JSON body of update_profile: <<>> is a key that is absent or empty
\* (bio: absent)
ProfileData ==
  [username : Usernames \cup {<<>>}, email : Emails \cup {<<>>}, bio : {<<>>, <<"bio">>}]

\* the values update_profile writes: the user's own where the body has none
profile_values(user, data) ==
  [username |-> IF data.username # <<>> THEN data.username ELSE user.username,
   email    |-> IF data.email # <<>> THEN data.email ELSE user.email,
   bio      |-> IF data.bio # <<>> THEN data.bio ELSE user.bio]

UpdateProfile(c, D) ==
  \E data \in D :
    LET id == find_by_id(users, session[c].user_id)
        v  == profile_values(users[id], data)
        r  == User_update(users, id, v.username, v.email, v.bio)
    IN  IF ~login_required(c)
        THEN /\ resp' = Resp("update_profile", c, 302, "redirect:/login", None)
             /\ UNCHANGED <<cfg, users, uploads, global_stats, session, inflight, clock, env, out>>
        ELSE IF id = 0 \/ r.raised
        THEN /\ resp' = Resp("update_profile", c, 400, "json", [success |-> FALSE])
             /\ UNCHANGED <<cfg, users, uploads, global_stats, session, inflight, clock, env, out>>
        ELSE /\ users' = r.users
             /\ resp' = Resp("update_profile", c, 200, "json", [success |-> TRUE])
             /\ UNCHANGED <<cfg, uploads, global_stats, session, inflight, clock, env, out>>

----------------------------------------------------------------------------
(* Registration and password login, one request at a time                  *)

InitAuth ==
  /\ cfg = [model |-> FALSE, vision |-> FALSE, gemini |-> FALSE, google_client |-> FALSE]
  /\ users = <<>>
  /\ uploads = <<>>
  /\ global_stats = <<>>
  /\ session = [c \in Clients |-> NoSession]
  /\ inflight = <<>>
  /\ resp = NoResp
  /\ clock = 0
  /\ env = NoEnv
  /\ out = NotRun

NextAuth ==
  \E c \in Clients :
    \/ Register(c, RegisterForms)
    \/ Login(c, LoginForms)
    \/ Dashboard(c)

SpecAuth == InitAuth /\ [][NextAuth]_vars

----------------------------------------------------------------------------
(* Federated logins, one request at a time, next to a registered user      *)
(* whose name is the local part of the e-mail addresses the providers      *)
(* report                                                                  *)

FederatedForms ==
  {[username |-> <<"ann">>, email |-> <<"ann", "z.org">>, password |-> <<"pw1">>]}

\* a request without token, three tokens the check refuses or cannot
\* check, two good tokens of two accounts, and the token of the first
\* account after its sessions were revoked
FederatedTokens ==
  [kind : {"missing", "invalid", "expired", "error"}, uid : {<<>>}, email : {<<>>}]
    \cup {[kind |-> "valid", uid |-> <<"uid1">>, email |-> <<"ann", "x.org">>],
          [kind |-> "valid", uid |-> <<"uid2">>, email |-> <<"ann", "y.org">>],
          [kind |-> "revoked", uid |-> <<"uid1">>, email |-> <<"ann", "x.org">>]}

FederatedAnswers ==
  [kind : {"nocode", "refused"}, email : {<<>>}, name : {<<>>}]
    \cup {[kind |-> "userinfo", email |-> <<"ann", "w.org">>, name |-> <<"ann">>]}

InitFederated == InitAuth

NextFederated ==
  \E c \in Clients :
    \/ Register(c, FederatedForms)
    \/ FirebaseLogin(c, FederatedTokens)
    \/ GoogleCallback(c, FederatedAnswers)

SpecFederated == InitFederated /\ [][NextFederated]_vars

----------------------------------------------------------------------------
(* models.py: the uploads and global_stats collections                     *)
(* (created_at, upload_date and the timestamp prefix of a stored file name *)
(* are left out: no modelled operation reads them)                         *)

\* Upload(...).to_dict(): <<>> is None for a coordinate
Upload(filename, species_name, confidence, user_id, latitude, longitude) ==
  [filename     |-> filename,
   species_name |-> species_name,
   confidence   |-> confidence,
   user_id      |-> user_id,
   latitude     |-> latitude,
   longitude    |-> longitude]

\* Upload.count()
Upload_count(ups) == Len(ups)

\* User.count()
User_count(coll) == Len(coll)

\* a count of the uploads in the place of the count of their species
species_count_uploads(ups) == Len(ups)

\* len(set(upload.species_name for upload in Upload.find({})))
species_count(ups) == Cardinality({ups[i].species_name : i \in 1..Len(ups)})

\* GlobalStats.save: replace_one({}, doc, upsert=True) replaces the first
\* document of the collection, or inserts when there is none; a replacement
\* under another _id is refused by the store
GlobalStats_save(coll, doc) ==
  IF coll = <<>>
  THEN [raised |-> FALSE, stats |-> <<doc>>]
  ELSE IF coll[1].id = doc.id
       THEN [raised |-> FALSE, stats |-> [coll EXCEPT ![1] = doc]]
       ELSE [raised |-> TRUE, stats |-> coll]

\* update_global_stats: the document found (or a new one, with a new _id)
\* gets the counts read now and is saved; any exception is swallowed. The
\* result is the collection afterwards and the value returned (<<>>: None)
update_global_stats(coll, ups, usrs, now) ==
  LET doc == [id                    |-> IF coll = <<>> THEN now ELSE coll[1].id,
              total_identifications |-> Upload_count(ups),
              total_users           |-> User_count(usrs),
              total_species         |-> species_count(ups),
              last_updated          |-> now]
      r   == GlobalStats_save(coll, doc)
  IN  IF r.raised
      THEN [stats |-> coll, returned |-> <<>>]
      ELSE [stats |-> r.stats, returned |-> <<doc>>]

----------------------------------------------------------------------------
(* app.py: the upload handlers and the stats endpoint                      *)

\* most documents of the uploads collection
MaxUploads == 2

\* latest reading of the clock
MaxClock == 3

ALLOWED_EXTENSIONS ==
  {<<"p", "n", "g">>, <<"j", "p", "g">>, <<"j", "p", "e", "g">>, <<"g", "i", "f">>, <<"b", "m", "p">>, <<"w", "e", "b", "p">>}

\* a check that lets every file name through
allowed_file_any(filename) == TRUE

\* '.' in filename and filename.rsplit('.', 1)[1].lower() in ALLOWED_EXTENSIONS
allowed_file(filename) ==
  LET dots == {i \in 1..Len(filename) : filename[i] = "."}
  IN  /\ dots # {}
      /\ LET last == CHOOSE i \in dots : \A j \in dots : j <= i
         IN  lower(SubSeq(filename, last + 1, Len(filename))) \in ALLOWED_EXTENSIONS

\* a coordinate of the form: absent (or empty), or a text that float() takes
\* (valid) or refuses
NoCoordinate == [given |-> FALSE, valid |-> TRUE, val |-> 0]

\* float(lat) if lat else None
coordinate(x) == IF x.given THEN <<x.val>> ELSE <<>>

\* an upload request: the file part and the two form fields
UploadRequest(has_file, filename, latitude, longitude) ==
  [has_file |-> has_file, filename |-> filename, latitude |-> latitude, longitude |-> longitude]

\* what a handler did besides answering: the request it handled, whether
\* it stored the file, whether it ran the pipeline, and what the pipeline
\* returned
Did(request, saved_file, ran, animal_data, vision_calls) ==
  [request |-> request, saved_file |-> saved_file, ran |-> ran,
   animal_data |-> animal_data, vision_calls |-> vision_calls]

UploadResp(route, c, code, body, json, did) ==
  [route |-> route, client |-> c, code |-> code, body |-> body, json |-> json, did |-> did]

\* the checks both handlers make before they store the file: the error
\* message, or "ok"
file_check(req) ==
  IF ~req.has_file
  THEN "No file uploaded"
  ELSE IF req.filename = <<>>
       THEN "No file selected"
       ELSE IF ~allowed_file(req.filename)
            THEN "Invalid file type. Please upload an image file (PNG, JPG, JPEG, GIF, BMP, WEBP)."
            ELSE "ok"

\* /predict. The two success responses read user.id and upload.id; User and
\* Upload define _id only, so building either response raises
\* AttributeError, which the handler's except clause answers with a 500
\* (the Upload is saved before its response is built)
Predict(c, R, E) ==
  \E req \in R, e \in E :
   \E run \in IF login_required(c) /\ file_check(req) = "ok"
              THEN {identify_species_with_h5(cfg, e)} ELSE {NotRun} :
    LET refused     == file_check(req)
        user        == find_by_id(users, session[c].user_id)
        animal_data == run.value
        upload      == Upload(req.filename, animal_data.name, animal_data.confidence,
                              session[c].user_id, <<>>, <<>>)
    IN  IF ~login_required(c)
        THEN /\ resp' = UploadResp("predict", c, 302, "redirect:/login", None,
                                    Did(req, FALSE, FALSE, None, 0))
             /\ UNCHANGED <<cfg, users, uploads, global_stats, session, inflight, clock, env, out>>
        ELSE IF refused # "ok"
        THEN /\ resp' = UploadResp("predict", c, 400, "json",
                                    [status |-> "error", message |-> refused],
                                    Did(req, FALSE, FALSE, None, 0))
             /\ UNCHANGED <<cfg, users, uploads, global_stats, session, inflight, clock, env, out>>
        ELSE IF user = 0
        THEN /\ resp' = UploadResp("predict", c, 401, "json",
                                    [status |-> "error", message |-> "User not found"],
                                    Did(req, TRUE, FALSE, None, 0))
             /\ UNCHANGED <<cfg, users, uploads, global_stats, session, inflight, clock, env, out>>
        ELSE IF animal_data = None
        THEN /\ resp' = UploadResp("predict", c, 500, "json",
                                    [status |-> "error", message |-> "Server error"],
                                    Did(req, TRUE, TRUE, None, run.vision_calls))
             /\ UNCHANGED <<cfg, users, uploads, global_stats, session, inflight, clock, env, out>>
        ELSE /\ Len(uploads) < MaxUploads
             /\ uploads' = Append(uploads, upload)
             /\ resp' = UploadResp("predict", c, 500, "json",
                                    [status |-> "error", message |-> "Server error"],
                                    Did(req, TRUE, TRUE, animal_data, run.vision_calls))
             /\ UNCHANGED <<cfg, users, global_stats, session, inflight, clock, env, out>>

\* /predict_web
PredictWeb(c, R, E) ==
  \E req \in R, e \in E :
   \E run \in IF login_required(c) /\ file_check(req) = "ok"
              THEN {identify_species_with_h5(cfg, e)} ELSE {NotRun} :
    LET refused     == file_check(req)
        user        == find_by_id(users, session[c].user_id)
        animal_data == run.value
        upload      == Upload(req.filename, animal_data.name, animal_data.confidence,
                              session[c].user_id,
                              coordinate(req.latitude), coordinate(req.longitude))
        refreshed   == update_global_stats(global_stats, Append(uploads, upload), users, clock + 1)
    IN  IF ~login_required(c)
        THEN /\ resp' = UploadResp("predict_web", c, 302, "redirect:/login", None,
                                    Did(req, FALSE, FALSE, None, 0))
             /\ UNCHANGED <<cfg, users, uploads, global_stats, session, inflight, clock, env, out>>
        ELSE IF refused # "ok"
        THEN /\ resp' = UploadResp("predict_web", c, 302, "redirect:/dashboard",
                                    [flash |-> refused], Did(req, FALSE, FALSE, None, 0))
             /\ UNCHANGED <<cfg, users, uploads, global_stats, session, inflight, clock, env, out>>
        ELSE IF user = 0
        THEN /\ resp' = UploadResp("predict_web", c, 302, "redirect:/dashboard",
                                    [flash |-> "User not found"], Did(req, TRUE, FALSE, None, 0))
             /\ UNCHANGED <<cfg, users, uploads, global_stats, session, inflight, clock, env, out>>
        ELSE IF    (req.latitude.given /\ ~req.latitude.valid)
                \/ (req.longitude.given /\ ~req.longitude.valid)
        THEN \* float() raises ValueError: the except clause
             /\ resp' = UploadResp("predict_web", c, 302, "redirect:/dashboard",
                                    [flash |-> "Error processing image"],
                                    Did(req, TRUE, FALSE, None, 0))
             /\ UNCHANGED <<cfg, users, uploads, global_stats, session, inflight, clock, env, out>>
        ELSE IF animal_data = None
        THEN /\ resp' = UploadResp("predict_web", c, 302, "redirect:/dashboard", None,
                                    Did(req, TRUE, TRUE, None, run.vision_calls))
             /\ UNCHANGED <<cfg, users, uploads, global_stats, session, inflight, clock, env, out>>
        ELSE /\ Len(uploads) < MaxUploads
             /\ clock < MaxClock
             /\ uploads' = Append(uploads, upload)
             /\ global_stats' = refreshed.stats
             /\ clock' = clock + 1
             /\ resp' = UploadResp("predict_web", c, 200, "render:result.html",
                                    [species_name |-> animal_data.name,
                                     confidence |-> animal_data.confidence],
                                    Did(req, TRUE, TRUE, animal_data, run.vision_calls))
             /\ UNCHANGED <<cfg, users, session, inflight, env, out>>

\* update_global_stats while the store may not answer: the first call to
\* the store raises, the except clause prints and returns None
update_global_stats_on(store, coll, ups, usrs, now) ==
  IF store = "unreachable"
  THEN [stats |-> coll, returned |-> <<>>]
  ELSE update_global_stats(coll, ups, usrs, now)

\* GET /api/stats, with the store reachable or not
GetStatsOn(c, S) ==
  \E store \in S :
    LET refreshed == update_global_stats_on(store, global_stats, uploads, users, clock + 1)
    IN  /\ clock < MaxClock
        /\ global_stats' = refreshed.stats
        /\ clock' = clock + 1
        /\ resp' = UploadResp("get_stats", c, 200, "json",
                               IF refreshed.returned # <<>>
                               THEN [total_identifications |-> refreshed.returned[1].total_identifications,
                                     total_users           |-> refreshed.returned[1].total_users,
                                     total_species         |-> refreshed.returned[1].total_species,
                                     last_updated          |-> refreshed.returned[1].last_updated]
                               ELSE [total_identifications |-> 0, total_users |-> 0,
                                     total_species |-> 0, last_updated |-> clock + 1],
                               Did([store |-> store], FALSE, FALSE, None, 0))
        /\ UNCHANGED <<cfg, users, uploads, session, inflight, env, out>>

\* GET /api/stats
GetStats(c) == GetStatsOn(c, {"reachable"})

\* Upload.find_by_user_id: the uploads of the user, latest first (uploads
\* are dated when they are built, so the latest is the last one inserted)
RECURSIVE Reverse(_)
Reverse(s) == IF s = <<>> THEN <<>> ELSE Append(Reverse(Tail(s)), Head(s))

\* a query that matches every upload
owned_by_anyone(ups, user_id, i) == TRUE

owned_by(ups, user_id, i) == ups[i].user_id = user_id

find_by_user_id(ups, user_id) ==
  LET idx == {i \in 1..Len(ups) : owned_by(ups, user_id, i)}
      RECURSIVE pick(_)
      pick(i) == IF i > Len(ups) THEN <<>>
                 ELSE IF i \in idx THEN <<ups[i]>> \o pick(i + 1) ELSE pick(i + 1)
  IN  Reverse(pick(1))

\* len(set(upload.species_name for upload in ups if upload.species_name))
unique_species(ups) == Cardinality({ups[i].species_name : i \in 1..Len(ups)})

\* /profile
Profile(c) ==
  /\ resp' = IF ~login_required(c)
             THEN Resp("profile", c, 302, "redirect:/login", None)
             ELSE LET mine == find_by_user_id(uploads, session[c].user_id)
                  IN  Resp("profile", c, 200, "render:profile.html",
                           [user |-> find_by_id(users, session[c].user_id),
                            total_uploads |-> Len(mine),
                            unique_species |-> unique_species(mine)])
  /\ UNCHANGED <<cfg, users, uploads, global_stats, session, inflight, clock, env, out>>

\* /export_data
ExportData(c) ==
  /\ resp' = IF ~login_required(c)
             THEN Resp("export_data", c, 302, "redirect:/login", None)
             ELSE LET mine == find_by_user_id(uploads, session[c].user_id)
                  IN  Resp("export_data", c, 200, "json",
                           [user |-> session[c].username,
                            total_uploads |-> Len(mine),
                            identifications |->
                              [i \in 1..Len(mine) |->
                                 [species |-> mine[i].species_name,
                                  confidence |-> mine[i].confidence]]])
  /\ UNCHANGED <<cfg, users, uploads, global_stats, session, inflight, clock, env, out>>

\* Upload.find_by_species: the uploads of that species_name, in collection
\* order
RECURSIVE find_by_species(_, _)
find_by_species(ups, species_name) ==
  IF ups = <<>>
  THEN <<>>
  ELSE (IF Head(ups).species_name = species_name THEN <<Head(ups)>> ELSE <<>>)
         \o find_by_species(Tail(ups), species_name)

\* the truth value Python gives a stored coordinate: None and 0.0 are false
truthy(x) == x # <<>> /\ x[1] # 0

\* [... for u in uploads if u.latitude and u.longitude] (the timestamp of an
\* entry is left out)
RECURSIVE locations(_)
locations(ups) ==
  IF ups = <<>>
  THEN <<>>
  ELSE (IF truthy(Head(ups).latitude) /\ truthy(Head(ups).longitude)
        THEN <<[lat |-> Head(ups).latitude[1], lng |-> Head(ups).longitude[1],
                species |-> Head(ups).species_name]>>
        ELSE <<>>)
         \o locations(Tail(ups))

\* /api/species_locations?species=...; <<>> is a request without the
\* parameter (or with an empty one)
SpeciesLocations(c, S) ==
  \E species \in S :
    /\ resp' = IF species = <<>>
               THEN UploadResp("species_locations", c, 400, "json",
                               <<>>, Did([species |-> species], FALSE, FALSE, None, 0))
               ELSE UploadResp("species_locations", c, 200, "json",
                               locations(find_by_species(uploads, species)),
                               Did([species |-> species], FALSE, FALSE, None, 0))
    /\ UNCHANGED <<cfg, users, uploads, global_stats, session, inflight, clock, env, out>>

----------------------------------------------------------------------------
(* Uploads and statistics, one request at a time. Two users have signed in *)
(* with Firebase tokens; the first client holds the session of one of      *)
(* them, the second client holds none                                      *)

UploadTokens ==
  <<[kind |-> "valid", uid |-> <<"uid1">>, email |-> <<"ann", "x.org">>],
    [kind |-> "valid", uid |-> <<"uid2">>, email |-> <<"bob", "x.org">>]>>

UploadUsers ==
  LET first == <<firebase_user(<<>>, UploadTokens[1])>>
  IN  Append(first, firebase_user(first, UploadTokens[2]))

PngName == <<"a", ".", "p", "n", "g">>

TxtName == <<"a", ".", "t", "x", "t">>

UploadRequests ==
  {UploadRequest(FALSE, <<>>, NoCoordinate, NoCoordinate),
   UploadRequest(TRUE, TxtName, NoCoordinate, NoCoordinate),
   UploadRequest(TRUE, PngName, NoCoordinate, NoCoordinate)}

\* the collaborators' answers to the uploads: a confident local prediction
\* with a vision client that cannot be set up, and a weak local prediction
\* with a vision answer that matches a species
UploadEnvs ==
  {[local  |-> [raises |-> FALSE, conf |-> 9200, idx |-> 6],
    vision |-> [fail |-> "client", objects |-> <<>>],
    gemini |-> [kind |-> "raise", keys |-> {}]],
   [local  |-> [raises |-> FALSE, conf |-> 8499, idx |-> 6],
    vision |-> [fail |-> "none", objects |-> <<[name |-> GreatWhiteShark, score |-> 9000]>>],
    gemini |-> [kind |-> "raise", keys |-> {}]]}

\* a body that sets the bio and nothing else
UploadProfileData == {[username |-> <<>>, email |-> <<>>, bio |-> <<"bio">>]}

InitUpload ==
  /\ cfg \in [model : BOOLEAN, vision : BOOLEAN, gemini : {TRUE}, google_client : {FALSE}]
  /\ users = UploadUsers
  /\ uploads = <<>>
  /\ global_stats = <<>>
  /\ \E id \in 1..Len(UploadUsers) :
       session = [c \in Clients |-> IF c = 1 THEN logged_in(NoSession, UploadUsers, id)
                                             ELSE NoSession]
  /\ inflight = <<>>
  /\ resp = NoResp
  /\ clock = 0
  /\ env = NoEnv
  /\ out = NotRun

NextUpload ==
  \E c \in Clients :
    \/ Predict(c, UploadRequests, UploadEnvs)
    \/ PredictWeb(c, UploadRequests, UploadEnvs)
    \/ GetStats(c)

SpecUpload == InitUpload /\ [][NextUpload]_vars

----------------------------------------------------------------------------
(* The endpoints behind login_required, one request at a time: the first   *)
(* client holds the session of the first user, the second client holds     *)
(* none; the local model is loaded and the vision fallback is not          *)

InitProtected ==
  /\ InitUpload
  /\ cfg.model /\ ~cfg.vision
  /\ session[1].user_id = 1

NextProtected ==
  \E c \in Clients :
    \/ Dashboard(c)
    \/ Profile(c)
    \/ Predict(c, UploadRequests, UploadEnvs)
    \/ PredictWeb(c, UploadRequests, UploadEnvs)
    \/ ExportData(c)
    \/ UpdateProfile(c, UploadProfileData)

SpecProtected == InitProtected /\ [][NextProtected]_vars

----------------------------------------------------------------------------
(* Logins, logouts and the pages behind the session check, one request at  *)
(* a time: both users exist, no client holds a session at first            *)

\* /settings: the handler makes the check of login_required itself
Settings(c) ==
  /\ resp' = IF session[c].user_id = 0
             THEN Resp("settings", c, 302, "redirect:/login", None)
             ELSE Resp("settings", c, 200, "render:settings.html",
                       [user |-> find_by_id(users, session[c].user_id)])
  /\ UNCHANGED <<cfg, users, uploads, global_stats, session, inflight, clock, env, out>>

\* an upload without a file part, and a profile update that changes nothing
LogoutRequests == {UploadRequest(FALSE, <<>>, NoCoordinate, NoCoordinate)}

LogoutProfileData == {[username |-> <<>>, email |-> <<>>, bio |-> <<>>]}

InitLogout ==
  /\ cfg = [model |-> TRUE, vision |-> FALSE, gemini |-> FALSE, google_client |-> FALSE]
  /\ users = UploadUsers
  /\ uploads = <<>>
  /\ global_stats = <<>>
  /\ session = [c \in Clients |-> NoSession]
  /\ inflight = <<>>
  /\ resp = NoResp
  /\ clock = 0
  /\ env = NoEnv
  /\ out = NotRun

NextLogout ==
  \E c \in Clients :
    \/ FirebaseLogin(c, {UploadTokens[1], UploadTokens[2]})
    \/ Logout(c)
    \/ Dashboard(c)
    \/ Profile(c)
    \/ Predict(c, LogoutRequests, {NoEnv})
    \/ PredictWeb(c, LogoutRequests, {NoEnv})
    \/ ExportData(c)
    \/ UpdateProfile(c, LogoutProfileData)
    \/ Settings(c)

SpecLogout == InitLogout /\ [][NextLogout]_vars

----------------------------------------------------------------------------
(* Uploads of one image that the local model classifies, for every class   *)
(* index: the first client holds the session of the first user, the local  *)
(* model is loaded and the vision fallback is not                          *)

\* 85.01%, 92% and 92.34%, for each class and for one index past the list
ClassEnvs ==
  [local  : [raises : {FALSE}, conf : {8501, 9200, 9234}, idx : 0..Len(SPECIES_NAMES)],
   vision : {[fail |-> "client", objects |-> <<>>]},
   gemini : {[kind |-> "raise", keys |-> {}]}]

PngRequest == UploadRequest(TRUE, PngName, NoCoordinate, NoCoordinate)

InitClasses ==
  /\ cfg = [model |-> TRUE, vision |-> FALSE, gemini |-> FALSE, google_client |-> FALSE]
  /\ users = UploadUsers
  /\ uploads = <<>>
  /\ global_stats = <<>>
  /\ session = [c \in Clients |-> IF c = 1 THEN logged_in(NoSession, UploadUsers, 1)
                                          ELSE NoSession]
  /\ inflight = <<>>
  /\ resp = NoResp
  /\ clock = 0
  /\ env \in ClassEnvs
  /\ out = NotRun

NextClasses ==
  \E c \in Clients :
    \/ Predict(c, {PngRequest}, {env})
    \/ PredictWeb(c, {PngRequest}, {env})

SpecClasses == InitClasses /\ [][NextClasses]_vars

----------------------------------------------------------------------------
(* Uploads with coordinates and the species-locations endpoint, one        *)
(* request at a time: the first client holds the session of the first      *)
(* user, the local model is loaded and the vision fallback is not          *)

Coordinate(val) == [given |-> TRUE, valid |-> TRUE, val |-> val]

\* a text float() refuses
BadCoordinate == [given |-> TRUE, valid |-> FALSE, val |-> 0]

\* an image without coordinates, on the equator, off the equator, and with
\* a latitude that is no number
GeoRequests ==
  {UploadRequest(TRUE, PngName, NoCoordinate, NoCoordinate),
   UploadRequest(TRUE, PngName, Coordinate(0), Coordinate(30)),
   UploadRequest(TRUE, PngName, Coordinate(12), Coordinate(30)),
   UploadRequest(TRUE, PngName, BadCoordinate, Coordinate(30))}

\* 92% for class 6 (Sharks) and for class 3 (Lobster)
GeoEnvs ==
  [local  : [raises : {FALSE}, conf : {9200}, idx : {3, 6}],
   vision : {[fail |-> "client", objects |-> <<>>]},
   gemini : {[kind |-> "raise", keys |-> {}]}]

GeoSpecies == {SPECIES_NAMES[4], SPECIES_NAMES[7], <<>>}

InitGeo == InitProtected

NextGeo ==
  \E c \in Clients :
    \/ Predict(c, GeoRequests, GeoEnvs)
    \/ PredictWeb(c, GeoRequests, GeoEnvs)
    \/ SpeciesLocations(c, GeoSpecies)

SpecGeo == InitGeo /\ [][NextGeo]_vars

----------------------------------------------------------------------------
(* Uploads of two users and the export endpoint, one request at a time:    *)
(* each client holds the session of its own user, the local model is       *)
(* loaded and the vision fallback is not                                   *)

InitExport ==
  /\ cfg = [model |-> TRUE, vision |-> FALSE, gemini |-> FALSE, google_client |-> FALSE]
  /\ users = UploadUsers
  /\ uploads = <<>>
  /\ global_stats = <<>>
  /\ session = [c \in Clients |-> logged_in(NoSession, UploadUsers, c)]
  /\ inflight = <<>>
  /\ resp = NoResp
  /\ clock = 0
  /\ env = NoEnv
  /\ out = NotRun

NextExport ==
  \E c \in Clients :
    \/ Predict(c, {PngRequest}, GeoEnvs)
    \/ PredictWeb(c, {PngRequest}, GeoEnvs)
    \/ ExportData(c)

SpecExport == InitExport /\ [][NextExport]_vars

----------------------------------------------------------------------------
(* Uploads with and without an acceptable file, one request at a time: the *)
(* first client holds the session of the first user, the local model is    *)
(* loaded and the vision fallback is not                                   *)

\* no file part, an empty file name, a text file, a name without a dot, a
\* name that ends with a dot, and two images, one with its extension in
\* upper case
ValidationRequests ==
  {UploadRequest(FALSE, <<>>, NoCoordinate, NoCoordinate),
   UploadRequest(TRUE, <<>>, NoCoordinate, NoCoordinate),
   UploadRequest(TRUE, TxtName, NoCoordinate, NoCoordinate),
   UploadRequest(TRUE, <<"p", "n", "g">>, NoCoordinate, NoCoordinate),
   UploadRequest(TRUE, <<"a", ".">>, NoCoordinate, NoCoordinate),
   UploadRequest(TRUE, <<"a", ".", "P", "N", "G">>, NoCoordinate, NoCoordinate),
   UploadRequest(TRUE, PngName, NoCoordinate, NoCoordinate)}

InitValidation == InitProtected

NextValidation ==
  \E c \in Clients :
    \/ Predict(c, ValidationRequests, {e \in GeoEnvs : e.local.idx = 6})
    \/ PredictWeb(c, ValidationRequests, {e \in GeoEnvs : e.local.idx = 6})

SpecValidation == InitValidation /\ [][NextValidation]_vars

----------------------------------------------------------------------------
(* The stats endpoint next to form uploads, with a store that answers some *)
(* requests and not others                                                 *)

StoreStates == {"reachable", "unreachable"}

InitOutage == InitProtected

NextOutage ==
  \E c \in Clients :
    \/ PredictWeb(c, {PngRequest}, GeoEnvs)
    \/ GetStatsOn(c, StoreStates)

SpecOutage == InitOutage /\ [][NextOutage]_vars

----------------------------------------------------------------------------
(* get_animal_details on its own: two spellings of one key of the          *)
(* reference table                                                         *)

\* str.upper
upper(s) == [i \in 1..Len(s) |-> UpperChar(s[i])]

\* the spelling with underscores for spaces
underscored(s) == [i \in 1..Len(s) |-> IF s[i] = " " THEN "_" ELSE s[i]]

\* spellings of a key: as written, lower case, upper case, title case, and
\* each of them with underscores
Spellings(key) ==
  LET cased == {key, lower(key), upper(key), title(key)}
  IN  cased \cup {underscored(k) : k \in cased}

DetailKeys == {animal_database[i].key : i \in 1..Len(animal_database)}

InitDetails ==
  /\ cfg = [model |-> FALSE, vision |-> FALSE, gemini |-> FALSE, google_client |-> FALSE]
  /\ users = <<>>
  /\ uploads = <<>>
  /\ global_stats = <<>>
  /\ session = [c \in Clients |-> NoSession]
  /\ inflight = <<>>
  /\ resp = NoResp
  /\ clock = 0
  /\ \E key \in DetailKeys : \E a \in Spellings(key), b \in Spellings(key) :
       env = [first |-> a, second |-> b]
  /\ out = NotRun

LookupDetails ==
  /\ ~out.ran
  /\ out' = [ran |-> TRUE,
             first  |-> get_animal_details(env.first),
             second |-> get_animal_details(env.second)]
  /\ UNCHANGED <<cfg, users, uploads, global_stats, session, inflight, resp, clock, env>>

NextDetails == LookupDetails

SpecDetails == InitDetails /\ [][NextDetails]_vars

----------------------------------------------------------------------------
(* A pipeline run on its own: the collaborators' answers are drawn, the    *)
(* function is applied                                                     *)

EmptyStore ==
  /\ users = <<>>
  /\ uploads = <<>>
  /\ global_stats = <<>>
  /\ session = <<>>
  /\ inflight = <<>>
  /\ resp = NoResp
  /\ clock = 0

InitPipeline ==
  /\ cfg \in [model : BOOLEAN, vision : BOOLEAN, gemini : BOOLEAN, google_client : {FALSE}]
  /\ EmptyStore
  /\ env \in Envs
  /\ out = NotRun

RunPipeline ==
  /\ ~out.ran
  /\ out' = [ran |-> TRUE] @@ identify_species_with_h5(cfg, env)
  /\ UNCHANGED <<cfg, users, uploads, global_stats, session, inflight, resp, clock, env>>

NextPipeline == RunPipeline

SpecPipeline == InitPipeline /\ [][NextPipeline]_vars

----------------------------------------------------------------------------
(* The cloud vision step on its own: no local model, a vision call that    *)
(* succeeds, and every outcome of the enrichment call                      *)

Jellyfish == <<"J", "e", "l", "l", "y", "f", "i", "s", "h">>

Starfish == <<"S", "t", "a", "r", "f", "i", "s", "h">>

Pufferfish == <<"P", "u", "f", "f", "e", "r", "f", "i", "s", "h">>

\* the objects the vision service may name, each with a score of 0, 0.3 or
\* 0.9 (in hundredths of a percent)
VisionObjects ==
  [name : {GreatWhiteShark, Jellyfish, Starfish, Pufferfish, Person},
   score : {0, 3000, 9000}]

\* the generative call raises, answers with text that is no JSON, with JSON
\* that has every requested field, or with JSON that lacks one
EnrichOutcomes ==
  [kind : {"raise", "text"}, keys : {{}}]
    \cup [kind : {"json"}, keys : {InfoKeys, InfoKeys \ {"scientific_name"}}]

InitVision ==
  /\ cfg \in [model : {FALSE}, vision : {TRUE}, gemini : BOOLEAN, google_client : {FALSE}]
  /\ EmptyStore
  /\ env \in [local : {NoEnv.local},
               vision : [fail : {"none"}, objects : SeqsUpTo(VisionObjects, MaxObjects)],
               gemini : EnrichOutcomes]
  /\ ~cfg.gemini => env.gemini = NoEnv.gemini
  /\ out = NotRun

NextVision == RunPipeline

SpecVision == InitVision /\ [][NextVision]_vars

----------------------------------------------------------------------------
(* The handlers that write users, as concurrent requests. A handler reads  *)
(* the collection (its look-ups) and writes it later (save or update);     *)
(* requests of other clients run in between. inflight[c] is the write the  *)
(* request of client c has still to make. The collection carries the       *)
(* unique indexes create_indexes built when it was empty                   *)

Idle == [op |-> "idle"]

\* register up to the end of its look-ups
RegisterCheck(c, F) ==
  \E form \in F, salt1 \in Salts, salt2 \in Salts :
    LET refused == register_check(users, form.username, form.email)
    IN  /\ inflight[c] = Idle
        /\ IF refused # "ok"
           THEN /\ resp' = Resp("register", c, 200, "render:register.html", form)
                /\ UNCHANGED inflight
           ELSE /\ inflight' = [inflight EXCEPT ![c] =
                                  [op   |-> "register",
                                   doc  |-> register_user(form.username, form.email,
                                                          form.password, salt1, salt2),
                                   form |-> form]]
                /\ UNCHANGED resp
        /\ UNCHANGED <<cfg, users, uploads, global_stats, session, clock, env, out>>

\* register from user.save()
RegisterSave(c) ==
  LET saved == User_save(users, inflight[c].doc)
  IN  /\ inflight[c] # Idle /\ inflight[c].op = "register"
      /\ Len(users) < MaxUsers
      /\ users' = saved.users
      /\ resp' = IF saved.raised
                 THEN Resp("register", c, 500, "error", inflight[c].form)
                 ELSE Resp("register", c, 302, "redirect:/login", inflight[c].form)
      /\ inflight' = [inflight EXCEPT ![c] = Idle]
      /\ UNCHANGED <<cfg, uploads, global_stats, session, clock, env, out>>

\* firebase_login, for a token that verifies, up to the end of its
\* look-ups and of the username loop
FirebaseCheck(c, T) ==
  \E token \in T :
    LET found == firebase_lookup(users, token)
    IN  /\ inflight[c] = Idle
        /\ token.kind = "valid"
        /\ IF found # 0
           THEN /\ session' = [session EXCEPT ![c] = logged_in(@, users, found)]
                /\ resp' = Resp("firebase_login", c, 200, "json",
                                 [success |-> TRUE, id |-> found,
                                  username |-> users[found].username])
                /\ UNCHANGED inflight
           ELSE /\ inflight' = [inflight EXCEPT ![c] =
                                  [op |-> "firebase", doc |-> firebase_user(users, token)]]
                /\ UNCHANGED <<session, resp>>
        /\ UNCHANGED <<cfg, users, uploads, global_stats, clock, env, out>>

\* firebase_login from user.save()
FirebaseSave(c) ==
  LET saved == User_save(users, inflight[c].doc)
      user  == Len(saved.users)
  IN  /\ inflight[c] # Idle /\ inflight[c].op = "firebase"
      /\ Len(users) < MaxUsers
      /\ users' = saved.users
      /\ IF saved.raised
         THEN /\ resp' = Resp("firebase_login", c, 500, "json", [success |-> FALSE])
              /\ UNCHANGED session
         ELSE /\ session' = [session EXCEPT ![c] = logged_in(@, saved.users, user)]
              /\ resp' = Resp("firebase_login", c, 200, "json",
                               [success |-> TRUE, id |-> user,
                                username |-> saved.users[user].username])
      /\ inflight' = [inflight EXCEPT ![c] = Idle]
      /\ UNCHANGED <<cfg, uploads, global_stats, clock, env, out>>

\* update_profile up to the values it is going to write
UpdateProfileRead(c, D) ==
  \E data \in D :
    LET id == find_by_id(users, session[c].user_id)
    IN  /\ inflight[c] = Idle
        /\ login_required(c)
        /\ id # 0
        /\ inflight' = [inflight EXCEPT ![c] =
                          [op |-> "update", id |-> id,
                           doc |-> profile_values(users[id], data)]]
        /\ UNCHANGED <<cfg, users, uploads, global_stats, session, resp, clock, env, out>>

\* update_profile from user.update(...)
UpdateProfileWrite(c) ==
  LET v == inflight[c].doc
      r == User_update(users, inflight[c].id, v.username, v.email, v.bio)
  IN  /\ inflight[c] # Idle /\ inflight[c].op = "update"
      /\ users' = r.users
      /\ resp' = IF r.raised
                 THEN Resp("update_profile", c, 400, "json", [success |-> FALSE])
                 ELSE Resp("update_profile", c, 200, "json", [success |-> TRUE])
      /\ inflight' = [inflight EXCEPT ![c] = Idle]
      /\ UNCHANGED <<cfg, uploads, global_stats, session, clock, env, out>>

ConcForms ==
  {[username |-> <<"ann">>, email |-> <<"ann", "x.org">>, password |-> <<"pw1">>],
   [username |-> <<"bob">>, email |-> <<"bob", "x.org">>, password |-> <<"pw1">>]}

ConcTokens ==
  {[kind |-> "valid", uid |-> <<"uid1">>, email |-> <<"ann", "x.org">>]}

ConcAnswers ==
  {[kind |-> "userinfo", email |-> <<"bob", "x.org">>, name |-> <<"ann">>]}

ConcProfileData ==
  {[username |-> <<"bob">>, email |-> <<>>, bio |-> <<>>],
   [username |-> <<>>, email |-> <<"bob", "x.org">>, bio |-> <<>>]}

InitConc ==
  /\ cfg = [model |-> FALSE, vision |-> FALSE, gemini |-> FALSE, google_client |-> FALSE]
  /\ users = <<>>
  /\ uploads = <<>>
  /\ global_stats = <<>>
  /\ session = [c \in Clients |-> NoSession]
  /\ inflight = [c \in Clients |-> Idle]
  /\ resp = NoResp
  /\ clock = 0
  /\ env = NoEnv
  /\ out = NotRun

NextConc ==
  \E c \in Clients :
    \/ RegisterCheck(c, ConcForms)
    \/ RegisterSave(c)
    \/ FirebaseCheck(c, ConcTokens)
    \/ FirebaseSave(c)
    \/ GoogleCallback(c, ConcAnswers)
    \/ UpdateProfileRead(c, ConcProfileData)
    \/ UpdateProfileWrite(c)

SpecConc == InitConc /\ [][NextConc]_vars

----------------------------------------------------------------------------
(* Statistics refreshes as concurrent requests. update_global_stats reads  *)
(* the stats document and the counts, and saves later; replace_one with    *)
(* upsert=True looks for a document to replace and, when it found none,    *)
(* inserts, and nothing in the collection (no unique index, no fixed _id)  *)
(* keeps two requests that both found none from both inserting. Uploads of *)
(* the first client by /predict arrive in between                          *)

\* update_global_stats up to the call of stats.save(): the document it is
\* going to save
StatsRead(c) ==
  /\ inflight[c] = Idle
  /\ clock < MaxClock
  /\ clock' = clock + 1
  /\ inflight' = [inflight EXCEPT ![c] =
       [op |-> "stats", matched |-> <<>>,
        doc |-> [id                    |-> IF global_stats = <<>> THEN clock + 1
                                           ELSE global_stats[1].id,
                 total_identifications |-> Upload_count(uploads),
                 total_users           |-> User_count(users),
                 total_species         |-> species_count(uploads),
                 last_updated          |-> clock + 1]]]
  /\ UNCHANGED <<cfg, users, uploads, global_stats, session, resp, env, out>>

\* replace_one: the look-up of a document that matches {}
StatsMatch(c) ==
  /\ inflight[c] # Idle /\ inflight[c].op \in {"stats", "web"}
  /\ inflight[c].matched = <<>>
  /\ inflight' = [inflight EXCEPT ![c].matched = <<global_stats # <<>> >>]
  /\ UNCHANGED <<cfg, users, uploads, global_stats, session, resp, clock, env, out>>

\* replace_one: the replacement of the first document (refused under
\* another _id) or the insert, and the rest of get_stats
StatsWrite(c) ==
  /\ inflight[c] # Idle /\ inflight[c].op = "stats" /\ inflight[c].matched # <<>>
  /\ LET doc    == inflight[c].doc
         raised == inflight[c].matched[1] /\ global_stats[1].id # doc.id
     IN  /\ global_stats' = IF raised
                            THEN global_stats
                            ELSE IF inflight[c].matched[1]
                                 THEN [global_stats EXCEPT ![1] = doc]
                                 ELSE Append(global_stats, doc)
         /\ resp' = UploadResp("get_stats", c, 200, "json",
                                IF raised
                                THEN [total_identifications |-> 0, total_users |-> 0,
                                      total_species |-> 0, last_updated |-> clock]
                                ELSE [total_identifications |-> doc.total_identifications,
                                      total_users           |-> doc.total_users,
                                      total_species         |-> doc.total_species,
                                      last_updated          |-> doc.last_updated],
                                Did(None, FALSE, FALSE, None, 0))
  /\ inflight' = [inflight EXCEPT ![c] = Idle]
  /\ UNCHANGED <<cfg, users, uploads, session, clock, env, out>>

InitStats ==
  /\ cfg = [model |-> TRUE, vision |-> FALSE, gemini |-> FALSE, google_client |-> FALSE]
  /\ users = UploadUsers
  /\ uploads = <<>>
  /\ global_stats = <<>>
  /\ session = [c \in Clients |-> IF c = 1 THEN logged_in(NoSession, UploadUsers, 1)
                                          ELSE NoSession]
  /\ inflight = [c \in Clients |-> Idle]
  /\ resp = NoResp
  /\ clock = 0
  /\ env = NoEnv
  /\ out = NotRun

NextStats ==
  \E c \in Clients :
    \/ StatsRead(c)
    \/ StatsMatch(c)
    \/ StatsWrite(c)
    \/ Predict(c, {PngRequest}, {e \in GeoEnvs : e.local.idx = 6})

SpecStats == InitStats /\ [][NextStats]_vars

----------------------------------------------------------------------------
(* Form uploads as concurrent requests: each inserts its Upload, then      *)
(* update_global_stats reads the counts and saves later. GET /api/stats    *)
(* is answered in one step in between                                      *)

\* predict_web of an accepted upload up to upload.save()
WebInsert(c, R, E) ==
  \E req \in R, e \in E :
   \E run \in {identify_species_with_h5(cfg, e)} :
    LET animal_data == run.value
        upload      == Upload(req.filename, animal_data.name, animal_data.confidence,
                              session[c].user_id,
                              coordinate(req.latitude), coordinate(req.longitude))
    IN  /\ inflight[c] = Idle
        /\ login_required(c)
        /\ file_check(req) = "ok"
        /\ find_by_id(users, session[c].user_id) # 0
        /\ ~(req.latitude.given /\ ~req.latitude.valid)
        /\ ~(req.longitude.given /\ ~req.longitude.valid)
        /\ animal_data # None
        /\ Len(uploads) < MaxUploads
        /\ uploads' = Append(uploads, upload)
        /\ inflight' = [inflight EXCEPT ![c] =
             [op |-> "inserted", request |-> req, animal_data |-> animal_data,
              vision_calls |-> run.vision_calls]]
        /\ UNCHANGED <<cfg, users, global_stats, session, resp, clock, env, out>>

\* update_global_stats of predict_web up to the call of stats.save()
WebRead(c) ==
  /\ inflight[c] # Idle /\ inflight[c].op = "inserted"
  /\ clock < MaxClock
  /\ clock' = clock + 1
  /\ inflight' = [inflight EXCEPT ![c] =
       [op |-> "web", matched |-> <<>>,
        doc |-> [id                    |-> IF global_stats = <<>> THEN clock + 1
                                           ELSE global_stats[1].id,
                 total_identifications |-> Upload_count(uploads),
                 total_users           |-> User_count(users),
                 total_species         |-> species_count(uploads),
                 last_updated          |-> clock + 1],
        request |-> inflight[c].request, animal_data |-> inflight[c].animal_data,
        vision_calls |-> inflight[c].vision_calls]]
  /\ UNCHANGED <<cfg, users, uploads, global_stats, session, resp, env, out>>

\* replace_one of predict_web's refresh (an exception is swallowed by
\* update_global_stats) and the result page
WebWrite(c) ==
  /\ inflight[c] # Idle /\ inflight[c].op = "web" /\ inflight[c].matched # <<>>
  /\ LET doc    == inflight[c].doc
         raised == inflight[c].matched[1] /\ global_stats[1].id # doc.id
     IN  global_stats' = IF raised
                         THEN global_stats
                         ELSE IF inflight[c].matched[1]
                              THEN [global_stats EXCEPT ![1] = doc]
                              ELSE Append(global_stats, doc)
  /\ resp' = UploadResp("predict_web", c, 200, "render:result.html",
                         [species_name |-> inflight[c].animal_data.name,
                          confidence |-> inflight[c].animal_data.confidence],
                         Did(inflight[c].request, TRUE, TRUE, inflight[c].animal_data,
                             inflight[c].vision_calls))
  /\ inflight' = [inflight EXCEPT ![c] = Idle]
  /\ UNCHANGED <<cfg, users, uploads, session, clock, env, out>>

InitRace ==
  /\ cfg = [model |-> TRUE, vision |-> FALSE, gemini |-> FALSE, google_client |-> FALSE]
  /\ users = UploadUsers
  /\ uploads = <<>>
  /\ global_stats = <<>>
  /\ session = [c \in Clients |-> logged_in(NoSession, UploadUsers, c)]
  /\ inflight = [c \in Clients |-> Idle]
  /\ resp = NoResp
  /\ clock = 0
  /\ env = NoEnv
  /\ out = NotRun

NextRace ==
  \E c \in Clients :
    \/ WebInsert(c, {PngRequest}, {e \in GeoEnvs : e.local.idx = 6})
    \/ WebRead(c)
    \/ StatsMatch(c)
    \/ WebWrite(c)
    \/ (inflight[c] = Idle /\ GetStats(c))

SpecRace == InitRace /\ [][NextRace]_vars

----------------------------------------------------------------------------
(* Properties of the pipeline (SpecPipeline)                               *)

\* the local classifier answered with a prediction in this run
LocalPredicted == cfg.model /\ ~env.local.raises

\* C1: for every combination of step outcomes the pipeline raises nothing
\* and returns None or a record with exactly the twelve result fields
C1_NoExceptionWellFormed ==
  out.ran => /\ ~out.raised
             /\ (out.value = None \/ DOMAIN out.value = ResultFields)

\* C1 witness: the vision step matched a species and the generated JSON
\* lacked a field; the run still ended with a twelve-field record
C1_Witness ==
  /\ out.ran /\ ~cfg.model /\ cfg.vision /\ cfg.gemini
  /\ env.vision.fail = "none" /\ best_match(env.vision.objects)[1] # <<>>
  /\ env.gemini.kind = "json" /\ env.gemini.keys = InfoKeys \ {"scientific_name"}
  /\ out.value # None /\ DOMAIN out.value = ResultFields

\* C2 as claimed: a local confidence of at least 85% (85% included) with a
\* valid class index gives a local-model result and no vision call
C2_AtLeastThreshold ==
  (out.ran /\ LocalPredicted /\ env.local.conf >= 8500 /\ env.local.idx < Len(SPECIES_NAMES))
    => /\ out.value # None
       /\ out.value.detection_method = "H5 Model"
       /\ out.vision_calls = 0

\* C2 amended: a local confidence strictly above 85% with a valid class
\* index gives a local-model result and no vision call
C2_AboveThreshold ==
  (out.ran /\ LocalPredicted /\ env.local.conf > 8500 /\ env.local.idx < Len(SPECIES_NAMES))
    => /\ out.value # None
       /\ out.value.detection_method = "H5 Model"
       /\ out.vision_calls = 0

\* C2 witness: 85.01% for class 6 with the vision fallback available
C2_Witness ==
  /\ out.ran /\ LocalPredicted /\ cfg.vision
  /\ env.local.conf = 8501 /\ env.local.idx = 6
  /\ out.value # None /\ out.value.detection_method = "H5 Model"

\* C3: a local confidence below 85%, or a class index outside the class
\* list, is never returned as the result: a record is returned only after
\* the vision fallback was called, and it is not a local-model record
C3_LowConfidenceNeedsVision ==
  (out.ran /\ LocalPredicted
     /\ (env.local.conf < 8500 \/ env.local.idx >= Len(SPECIES_NAMES)))
    => \/ out.value = None
       \/ (out.vision_calls >= 1 /\ out.value.detection_method # "H5 Model")

\* C3 witness: 84.99% for class 6, and the vision fallback gave the record
C3_Witness ==
  /\ out.ran /\ LocalPredicted /\ cfg.vision
  /\ env.local.conf = 8499 /\ env.local.idx = 6
  /\ out.value # None /\ out.vision_calls = 1

\* C4 as claimed: when the vision step fails internally and the local model
\* gave no accepted result, the pipeline returns None
C4_VisionFailureGivesNone ==
  (out.ran /\ cfg.vision /\ env.vision.fail # "none"
     /\ (~LocalPredicted \/ env.local.conf < 8500 \/ env.local.idx >= Len(SPECIES_NAMES)))
    => out.value = None

\* some object the vision service named carries a keyword of the table
LabelMaps(objects) ==
  \E j \in 1..Len(objects) : \E name \in {lower(objects[j].name)} :
    \E i \in 1..Len(keywords_lower) : \E k \in 1..Len(keywords_lower[i]) :
      contains(name, keywords_lower[i][k])

\* C12: with no local classifier, a vision call that succeeds and names no
\* object of a known species gives the record named 'Unknown Marine
\* Species', with confidence 0 and the vision API as detection_method
C12_NoLabelGivesUnknownRecord ==
  (out.ran /\ ~cfg.model /\ cfg.vision /\ env.vision.fail = "none"
     /\ ~LabelMaps(env.vision.objects))
    => /\ out.value # None
       /\ out.value.name = vision_unknown_record.name
       /\ out.value.confidence = 0
       /\ out.value.detection_method = "Google Cloud Vision API"

\* C12 witness: the vision service named one object, a person
C12_Witness ==
  /\ out.ran /\ ~cfg.model /\ cfg.vision /\ env.vision.fail = "none"
  /\ Len(env.vision.objects) = 1 /\ env.vision.objects[1].name = Person
  /\ out.value # None /\ out.value.confidence = 0
  /\ out.vision_calls = 1

----------------------------------------------------------------------------
(* Properties of the cloud vision step (SpecVision)                        *)

\* the species of the keyword table that have a keyword the label carries
SpeciesOfLabel(name) ==
  {marine_keywords[i].species :
     i \in {h \in 1..Len(marine_keywords) :
              \E k \in 1..Len(keywords_lower[h]) :
                 contains(lower(name), keywords_lower[h][k])}}

\* the objects whose label carries a keyword of the table
MatchingObjects(objects) ==
  {j \in 1..Len(objects) : SpeciesOfLabel(objects[j].name) # {}}

\* the first of the matching objects that has the highest score among them
BestObject(objects) ==
  CHOOSE j \in MatchingObjects(objects) :
    /\ \A h \in MatchingObjects(objects) : objects[h].score <= objects[j].score
    /\ \A h \in MatchingObjects(objects) :
         objects[h].score = objects[j].score => j <= h

\* the pipeline ran the vision step on the objects the service returned,
\* and the enrichment call gave every field it was asked for
VisionRan ==
  /\ out.ran /\ ~cfg.model /\ cfg.vision /\ env.vision.fail = "none"
  /\ out.value # None

EnrichedInFull ==
  ~cfg.gemini \/ env.gemini.kind # "json" \/ InfoKeys \subseteq env.gemini.keys

\* C25: the species chosen is one matched by the first object of maximal
\* score among the objects whose label matches the keyword table, for every
\* score including 0; the 'unknown' record is returned only when no label
\* matches
C25_BestMatchingLabelChosen ==
  (VisionRan /\ EnrichedInFull)
    => IF MatchingObjects(env.vision.objects) = {}
       THEN out.value.name = vision_unknown_record.name
       ELSE \E species \in SpeciesOfLabel(env.vision.objects[BestObject(env.vision.objects)].name) :
              out.value.name = title(replace_underscore(species))

\* C26: a single object whose label is a keyword of exactly one species is
\* identified as that species
C26_KeywordGivesItsSpecies ==
  (VisionRan /\ EnrichedInFull /\ Len(env.vision.objects) = 1
     /\ env.vision.objects[1].score > 0)
    => \A i \in 1..Len(marine_keywords) :
         (/\ \E k \in 1..Len(marine_keywords[i].keywords) :
                marine_keywords[i].keywords[k] = env.vision.objects[1].name
          /\ \A h \in 1..Len(marine_keywords) :
                (\E k \in 1..Len(marine_keywords[h].keywords) :
                   marine_keywords[h].keywords[k] = env.vision.objects[1].name) => h = i)
           => out.value.name = title(replace_underscore(marine_keywords[i].species))

\* C27: when the vision step matched a species, the result has that species
\* as name, the matched score as confidence and the cloud vision detection
\* method, whatever the enrichment call did
C27_MatchSurvivesEnrichment ==
  (VisionRan /\ best_match(env.vision.objects)[1] # <<>>)
    => /\ out.value.name = title(replace_underscore(best_match(env.vision.objects)[1]))
       /\ out.value.confidence = round1(best_match(env.vision.objects)[2])
       /\ out.value.detection_method = "Google Cloud Vision API"

----------------------------------------------------------------------------
(* Properties of the reference table (SpecDetails)                         *)

\* C14 as claimed: two spellings of a key of the reference table that are
\* equal after folding case and separators get the same record, the name
\* included
C14_SpellingsGetSameRecord ==
  (out.ran /\ fold_key(env.first) = fold_key(env.second))
    => out.first = out.second

----------------------------------------------------------------------------
(* Properties of the upload handlers (SpecUpload, SpecProtected)           *)

\* the step is an upload request answered by /predict or /predict_web
UploadStep == resp'.route \in {"predict", "predict_web"}

\* C5: with no local model and no vision fallback the pipeline returns None,
\* and an upload request handled then leaves the uploads collection and the
\* stats record as they were
C5_NothingAvailableNothingStored ==
  [][(UploadStep /\ ~cfg.model /\ ~cfg.vision)
       => (/\ resp'.did.animal_data = None
           /\ uploads' = uploads
           /\ global_stats' = global_stats)]_vars

\* C5 witness: /predict_web ran the pipeline with neither step available
\* while a stats record existed, and redirected to the dashboard
C5_Witness ==
  /\ resp.route = "predict_web" /\ resp.did.ran
  /\ ~cfg.model /\ ~cfg.vision
  /\ resp.did.animal_data = None
  /\ global_stats # <<>>
  /\ resp.body = "redirect:/dashboard"

\* C6 as claimed: when the pipeline returns None, /predict answers with
\* status 200, status "success", a null prediction and the id and username
\* of the session user
C6_SentinelAnswersSuccess ==
  (resp.route = "predict" /\ resp.did.ran /\ resp.did.animal_data = None)
    => /\ resp.code = 200
       /\ resp.json.status = "success"
       /\ resp.json.prediction = None
       /\ resp.json.user.id = session[resp.client].user_id
       /\ resp.json.user.username = users[session[resp.client].user_id].username

\* C7 as claimed: when the pipeline returns a record, /predict and
\* /predict_web each add exactly one Upload of the session user, and the
\* stats record afterwards counts every upload, the new one included
C7_UploadInsertedStatsRefreshed ==
  [][(UploadStep /\ resp'.did.ran /\ resp'.did.animal_data # None)
       => (/\ Len(uploads') = Len(uploads) + 1
           /\ SubSeq(uploads', 1, Len(uploads)) = uploads
           /\ uploads'[Len(uploads')].user_id = session[resp'.client].user_id
           /\ global_stats' # <<>>
           /\ global_stats'[1].total_identifications = Len(uploads'))]_vars

\* the endpoints behind login_required
ProtectedRoutes ==
  {"dashboard", "profile", "predict", "predict_web", "export_data", "update_profile"}

\* C11: a request to a protected endpoint from a session without user_id is
\* answered with a redirect to the login page that carries no data, and
\* leaves users, uploads and the stats record as they were
C11_NoSessionRedirectsToLogin ==
  [][(resp'.route \in ProtectedRoutes /\ session[resp'.client].user_id = 0)
       => (/\ resp'.code = 302
           /\ resp'.body = "redirect:/login"
           /\ resp'.json = None
           /\ users' = users
           /\ uploads' = uploads
           /\ global_stats' = global_stats)]_vars

\* C11 witness: the client without a session asked for /export_data while
\* an upload and a stats record existed, and was sent to the login page
C11_Witness ==
  /\ resp.route = "export_data"
  /\ session[resp.client].user_id = 0
  /\ resp.body = "redirect:/login"
  /\ uploads # <<>> /\ global_stats # <<>>

\* the name the reference table gives a class: class 2, 'Jelly Fish', is
\* named 'Jellyfish' there; the other classes keep their names
ClassDisplayName(i) ==
  IF i = 2
  THEN <<"J", "e", "l", "l", "y", "f", "i", "s", "h">>
  ELSE SPECIES_NAMES[i + 1]

\* the step is an upload after the local model accepted its prediction
AcceptedUploadStep ==
  /\ UploadStep /\ resp'.did.ran
  /\ env.local.conf > 8500 /\ env.local.idx < Len(SPECIES_NAMES)

\* C13 as claimed: the result is named after class i of the class list, its
\* confidence is the model's confidence as a percentage (to one decimal),
\* and the Upload saved carries that name and that confidence
C13_NamedAfterClass ==
  [][AcceptedUploadStep
       => (/\ resp'.did.animal_data # None
           /\ resp'.did.animal_data.name = SPECIES_NAMES[env.local.idx + 1]
           /\ resp'.did.animal_data.confidence = round1(env.local.conf)
           /\ Len(uploads') = Len(uploads) + 1
           /\ uploads'[Len(uploads')].species_name = resp'.did.animal_data.name
           /\ uploads'[Len(uploads')].confidence = resp'.did.animal_data.confidence)]_vars

\* C13 amended: the result carries the name the reference table gives
\* class i (the class name, except 'Jellyfish' for 'Jelly Fish'), its
\* confidence is the percentage rounded to one decimal, and the Upload saved
\* carries that name and that confidence
C13_NamedByReferenceTable ==
  [][AcceptedUploadStep
       => (/\ resp'.did.animal_data # None
           /\ resp'.did.animal_data.name = ClassDisplayName(env.local.idx)
           /\ resp'.did.animal_data.confidence = round1(env.local.conf)
           /\ resp'.did.animal_data.detection_method = "H5 Model"
           /\ Len(uploads') = Len(uploads) + 1
           /\ uploads'[Len(uploads')].species_name = resp'.did.animal_data.name
           /\ uploads'[Len(uploads')].confidence = resp'.did.animal_data.confidence)]_vars

\* C13 witness: 92% for class 6 was stored by /predict_web as an upload of
\* 'Sharks' with confidence 92.0
C13_Witness ==
  /\ resp.route = "predict_web" /\ resp.did.ran
  /\ env.local.conf = 9200 /\ env.local.idx = 6
  /\ uploads # <<>>
  /\ uploads[Len(uploads)].species_name = <<"S", "h", "a", "r", "k", "s">>
  /\ uploads[Len(uploads)].confidence = 9200

----------------------------------------------------------------------------
(* Properties of the federated logins (SpecFederated)                      *)

\* the step is a /firebase_login request that was answered
FirebaseStep == resp' # resp /\ resp'.route = "firebase_login"

\* C21: a /firebase_login request whose token is missing, invalid, expired
\* or revoked is answered with success false and status 400 (missing) or
\* 401 (the others); no user is created and the session is left as it was
C21_BadTokenRefused ==
  [][(FirebaseStep /\ resp'.did.token.kind \in {"missing", "invalid", "expired", "revoked"})
       => (/\ resp'.json.success = FALSE
           /\ resp'.code = IF resp'.did.token.kind = "missing" THEN 400 ELSE 401
           /\ users' = users
           /\ session' = session)]_vars

\* the name is held by a user of the collection
NameInUse(coll, name) == \E i \in 1..Len(coll) : coll[i].username = name

\* base when it is free, else base_n for the smallest positive n such that
\* base_n is free
SmallestFree(coll, base) ==
  IF ~NameInUse(coll, base)
  THEN base
  ELSE LET free == {n \in 1..(Len(coll) + 1) :
                      ~NameInUse(coll, base \o <<"_", ToString(n)>>)}
           n == CHOOSE k \in free : \A j \in free : k <= j
       IN  base \o <<"_", ToString(n)>>

\* the step is a Firebase login with a token that is decoded and matches no
\* user by uid or e-mail
FirebaseCreateStep ==
  /\ FirebaseStep
  /\ resp'.did.token.kind \in {"valid", "revoked"}
  /\ \A i \in 1..Len(users) :
        /\ users[i].firebase_uid # resp'.did.token.uid
        /\ users[i].email # resp'.did.token.email

\* the step is a Google callback whose exchange gave a userinfo document
\* with an e-mail address no user has
GoogleCreateStep ==
  /\ resp' # resp /\ resp'.route = "google_callback"
  /\ resp'.did.info.kind = "userinfo"
  /\ \A i \in 1..Len(users) : users[i].email # resp'.did.info.email

\* the step added one user, named base or base_n for the smallest free n
CreatedWithSmallestFree(base) ==
  /\ Len(users') = Len(users) + 1
  /\ SubSeq(users', 1, Len(users)) = users
  /\ users'[Len(users')].username = SmallestFree(users, base)
  /\ ~NameInUse(users, users'[Len(users')].username)

\* C24: a federated login that has to create a user creates it under the
\* base name when that is free and else under base_n for the smallest
\* positive n such that base_n is free; no existing user holds the name
C24_FederatedUserGetsSmallestFreeName ==
  [][/\ FirebaseCreateStep
          => CreatedWithSmallestFree(<<resp'.did.token.email[1]>>)
     /\ GoogleCreateStep
          => CreatedWithSmallestFree(resp'.did.info.name)]_vars

----------------------------------------------------------------------------
(* Properties of the stats endpoint (SpecOutage)                           *)

\* C22: GET /api/stats handled while the document store is unreachable is
\* answered with a server error (HTTP 5xx), never with a successful
\* response that carries counts
C22_UnreachableStoreIsServerError ==
  [][(resp' # resp /\ resp'.route = "get_stats"
        /\ resp'.did.request.store = "unreachable")
       => resp'.code \in 500..599]_vars

----------------------------------------------------------------------------
(* Properties of concurrent form uploads (SpecRace)                        *)

\* no request is between its first and its last step
Quiescent == \A c \in Clients : inflight[c] = Idle

\* C23: once every in-flight form upload has completed, the stats record
\* (the document find_one returns) counts as many identifications as there
\* are Upload records; no refresh that read older counts has overwritten a
\* newer one
C23_StatsMatchUploadsWhenQuiescent ==
  (Quiescent /\ uploads # <<>>)
    => /\ global_stats # <<>>
       /\ global_stats[1].total_identifications = Len(uploads)

----------------------------------------------------------------------------
(* Properties of /predict and the store (SpecUpload)                       *)

\* the step is a /predict request that was answered
PredictStep == resp' # resp /\ resp'.route = "predict"

\* the response is an error: HTTP 4xx or 5xx, or a body with status 'error'
ErrorResponse(r) ==
  \/ r.code >= 400
  \/ ("status" \in DOMAIN r.json /\ r.json.status = "error")

\* C28: a /predict request whose response is an error (status 'error',
\* HTTP 4xx or 5xx) leaves the uploads collection as it was, and one that
\* inserted an Upload is answered with a success that carries the
\* prediction
C28_PredictAllOrNothing ==
  [][PredictStep
       => /\ ErrorResponse(resp') => uploads' = uploads
          /\ uploads' # uploads
               => /\ resp'.code = 200
                  /\ "prediction" \in DOMAIN resp'.json
                  /\ resp'.json.status = "success"
                  /\ resp'.json.prediction # None]_vars

----------------------------------------------------------------------------
(* Properties of logout (SpecLogout)                                       *)

\* the endpoints that check the session for a user_id
SessionRoutes == ProtectedRoutes \cup {"settings"}

\* C29: /logout removes the session's user_id, and the request of the same
\* session to a protected endpoint that follows the logout is redirected
\* to login
C29_LogoutEndsSession ==
  [][/\ resp'.route = "logout" => session'[resp'.client].user_id = 0
     /\ (resp.route = "logout" /\ resp'.route \in SessionRoutes
           /\ resp'.client = resp.client)
          => resp'.body = "redirect:/login"]_vars

----------------------------------------------------------------------------
(* Properties of the class list and the reference table (SpecClasses)      *)

\* C30: every class of the local classifier resolves to a record of the
\* reference table, never to the generic placeholder (scientific_name
\* 'Unknown'), so a local-model result carries that record's fields
C30_EveryClassHasReferenceRecord ==
  [][AcceptedUploadStep
       => (/\ resp'.did.animal_data # None
           /\ resp'.did.animal_data.scientific_name # Txt("Unknown")
           /\ resp'.did.animal_data.facts
                # default_details(SPECIES_NAMES[env.local.idx + 1]).facts)]_vars

----------------------------------------------------------------------------
(* Properties of the file checks (SpecValidation)                          *)

\* the file name ends with a dot and an extension of the allow-list, in
\* whatever case
EndsWithAllowedExtension(f) ==
  \E ext \in ALLOWED_EXTENSIONS :
    /\ Len(f) > Len(ext)
    /\ f[Len(f) - Len(ext)] = "."
    /\ lower(SubSeq(f, Len(f) - Len(ext) + 1, Len(f))) = ext

\* the messages the handlers have for a request they refuse
RefusalMessages ==
  {"No file uploaded", "No file selected",
   "Invalid file type. Please upload an image file (PNG, JPG, JPEG, GIF, BMP, WEBP)."}

\* the step is an upload request of a session with a user that has no file
\* part, an empty file name, or no extension of the allow-list
RefusedUploadStep ==
  /\ UploadStep
  /\ session[resp'.client].user_id # 0
  /\ \/ ~resp'.did.request.has_file
     \/ resp'.did.request.filename = <<>>
     \/ ~EndsWithAllowedExtension(resp'.did.request.filename)

\* C20: an upload without a file part, with an empty file name or with an
\* extension outside the allow-list is answered with an error message
\* (/predict: status 400 and the message; /predict_web: the message flashed
\* and a redirect to the dashboard); no file is stored, the pipeline is not
\* run, and uploads and the stats record stay as they were
C20_InvalidUploadOnlyGetsMessage ==
  [][RefusedUploadStep
       => (/\ resp'.route = "predict" =>
                 /\ resp'.code = 400
                 /\ resp'.json.status = "error"
                 /\ resp'.json.message \in RefusalMessages
           /\ resp'.route = "predict_web" =>
                 /\ resp'.body = "redirect:/dashboard"
                 /\ resp'.json.flash \in RefusalMessages
           /\ ~resp'.did.saved_file
           /\ ~resp'.did.ran
           /\ uploads' = uploads
           /\ global_stats' = global_stats)]_vars

\* C20 witness: /predict_web refused a text file while an upload and a
\* stats record existed
C20_Witness ==
  /\ resp.route = "predict_web"
  /\ session[resp.client].user_id # 0
  /\ resp.did.request.filename = TxtName
  /\ resp.body = "redirect:/dashboard"
  /\ ~resp.did.saved_file
  /\ uploads # <<>> /\ global_stats # <<>>

----------------------------------------------------------------------------
(* Properties of uploads with coordinates (SpecGeo)                        *)

\* the step is an upload whose request gave a latitude and a longitude and
\* whose image was identified
LocatedUploadStep ==
  /\ UploadStep /\ resp'.did.ran /\ resp'.did.animal_data # None
  /\ resp'.did.request.latitude.given /\ resp'.did.request.latitude.valid
  /\ resp'.did.request.longitude.given /\ resp'.did.request.longitude.valid

\* C15 as claimed: an upload that supplies latitude and longitude and is
\* identified is saved with that latitude and longitude, by /predict as
\* well as by /predict_web
C15_CoordinatesSaved ==
  [][LocatedUploadStep
       => (/\ Len(uploads') = Len(uploads) + 1
           /\ uploads'[Len(uploads')].latitude = <<resp'.did.request.latitude.val>>
           /\ uploads'[Len(uploads')].longitude = <<resp'.did.request.longitude.val>>)]_vars

\* the entries species_locations owes a species: one for each upload of the
\* species that has both coordinates, in collection order
RECURSIVE LocatedUploads(_, _)
LocatedUploads(ups, species) ==
  IF ups = <<>>
  THEN <<>>
  ELSE (IF /\ Head(ups).species_name = species
           /\ Head(ups).latitude # <<>> /\ Head(ups).longitude # <<>>
        THEN <<[lat |-> Head(ups).latitude[1], lng |-> Head(ups).longitude[1],
                species |-> species]>>
        ELSE <<>>)
         \o LocatedUploads(Tail(ups), species)

\* C16 as claimed: species_locations answers with exactly one entry for
\* every upload of the species whose latitude and longitude are both set, a
\* coordinate of 0 included, and with no other entry
C16_OneEntryPerLocatedUpload ==
  (resp.route = "species_locations" /\ resp.code = 200)
    => resp.json = LocatedUploads(uploads, resp.did.request.species)

----------------------------------------------------------------------------
(* Properties of the export endpoint (SpecExport)                          *)

\* how many elements of the sequence equal e
Occurrences(seq, e) == Cardinality({i \in 1..Len(seq) : seq[i] = e})

\* the uploads, each reduced to what an exported identification shows, with
\* <<>> in the place of an upload of another user
ExportOf(ups, user_id) ==
  [i \in 1..Len(ups) |->
     IF ups[i].user_id = user_id
     THEN <<[species |-> ups[i].species_name, confidence |-> ups[i].confidence]>>
     ELSE <<>>]

\* C17: for a session with a user, export_data lists the uploads of that
\* user, each once, and no upload of another user, and total_uploads is the
\* number of identifications listed
C17_ExportListsOwnUploads ==
  (resp.route = "export_data" /\ resp.code = 200)
    => LET mine == ExportOf(uploads, session[resp.client].user_id)
           ids  == resp.json.identifications
       IN  /\ resp.json.total_uploads = Len(ids)
           /\ Len(ids) = Len(mine) - Occurrences(mine, <<>>)
           /\ \A i \in 1..Len(ids) :
                 Occurrences(ids, ids[i]) = Occurrences(mine, <<ids[i]>>)

\* C17 witness: an export that lists an upload of the session's user while
\* the collection also holds an upload of the other user
C17_Witness ==
  /\ resp.route = "export_data" /\ resp.code = 200
  /\ resp.json.total_uploads >= 1
  /\ \E i \in 1..Len(uploads) : uploads[i].user_id # session[resp.client].user_id

----------------------------------------------------------------------------
(* Properties of the stats record (SpecStats, SpecUpload)                  *)

\* C18 as claimed: the stats collection never holds more than one document,
\* whatever the interleaving of refreshes
C18_AtMostOneStatsRecord == Len(global_stats) <= 1

\* the step is a request that refreshed the stats: GET /api/stats, or an
\* upload that /predict_web stored
RefreshStep ==
  \/ resp'.route = "get_stats"
  \/ (resp'.route = "predict_web" /\ resp'.code = 200)

\* C19: after a refresh with no other request in flight, the stats record
\* holds the number of uploads, the number of users and the number of
\* distinct species names of the uploads, and GET /api/stats returns them
C19_RefreshCountsEverything ==
  [][RefreshStep
       => (/\ global_stats' # <<>>
           /\ global_stats'[1].total_identifications = Len(uploads')
           /\ global_stats'[1].total_users = Len(users')
           /\ global_stats'[1].total_species =
                 Cardinality({uploads'[i].species_name : i \in 1..Len(uploads')})
           /\ resp'.route = "get_stats" =>
                 /\ resp'.json.total_identifications = Len(uploads')
                 /\ resp'.json.total_users = Len(users')
                 /\ resp'.json.total_species =
                       Cardinality({uploads'[i].species_name : i \in 1..Len(uploads')}))]_vars

\* C19 witness: GET /api/stats counted two uploads of one species
C19_Witness ==
  /\ resp.route = "get_stats"
  /\ Len(uploads) = 2 /\ uploads[1].species_name = uploads[2].species_name
  /\ resp.json.total_identifications = 2 /\ resp.json.total_species = 1
  /\ resp.json.total_users = 2

----------------------------------------------------------------------------
(* Properties of registration and login (SpecAuth)                         *)

\* C8 as claimed: a login that follows a successful registration, with the
\* username and password of that registration, from a session that is not
\* logged in, redirects and establishes the session of the registered user
C8_LoginAfterRegister ==
  [][(/\ resp.route = "register" /\ resp.code = 302
      /\ resp'.route = "login"
      /\ ~is_authenticated(resp'.client)
      /\ resp'.json.username = resp.json.username
      /\ resp'.json.password = resp.json.password)
       => (/\ resp'.code = 302
           /\ session'[resp'.client].user_id = find_by_username(users, resp.json.username))]_vars

\* C9: a registration whose username or e-mail address an existing user
\* holds is refused and leaves the users collection as it was
C9_DuplicateRegistrationRefused ==
  [][(/\ resp'.route = "register"
      /\ \E i \in 1..Len(users) :
            \/ users[i].username = resp'.json.username
            \/ users[i].email = resp'.json.email)
       => (users' = users /\ resp'.code # 302)]_vars

\* C9 witness: a form with a fresh username and a taken e-mail address was
\* refused
C9_Witness ==
  /\ resp.route = "register" /\ resp.code = 200
  /\ \E i \in 1..Len(users) : users[i].email = resp.json.email
  /\ \A i \in 1..Len(users) : users[i].username # resp.json.username

----------------------------------------------------------------------------
(* Properties of concurrent writes of users (SpecConc)                     *)

\* C10: no two users hold the same username and no two users hold the same
\* e-mail address, whatever the interleaving of register, firebase_login,
\* google_callback and update_profile requests
C10_UsernamesAndEmailsUnique ==
  \A i \in 1..Len(users) : \A j \in 1..Len(users) :
     i # j => /\ users[i].username # users[j].username
              /\ users[i].email # users[j].email

\* C10 witness: a registration passed both look-ups, another request wrote
\* a user of that username or e-mail address in between, and the save of
\* the registration was refused
C10_Witness ==
  /\ resp.route = "register" /\ resp.code = 500
  /\ \E i \in 1..Len(users) :
        \/ users[i].username = resp.json.username
        \/ users[i].email = resp.json.email

====
